---------------------------- MODULE Spec2Model ----------------------------
(***************************************************************************)
(* A model of tetra-tools: the vectorized placement engine (srs-4l),      *)
(* the one-piece-at-a-time reference search, BrokenBoard and its codec,   *)
(* and the scan / cull / place solver (gomen).                            *)
(*                                                                         *)
(* A u64 is modelled as the set of its set bit positions, a subset of     *)
(* 0..63, so that shifts lose the bits that leave the word and rotations  *)
(* wrap modulo 64 exactly as the machine word does.                       *)
(***************************************************************************)
EXTENDS Integers, Sequences, FiniteSets, TLC

(***************************************************************************)
(* 64-bit words as sets of bit positions                                   *)
(***************************************************************************)
U64 == 0..63

Shl(x, s) == {i + s : i \in {j \in x : j + s < 64}}

Shr(x, s) == {i - s : i \in {j \in x : j >= s}}

rotate_left(x, r) == {(i + r) % 64 : i \in x}

rotate_right(x, r) == {(i + 64 - r) % 64 : i \in x}

Not(x) == U64 \ x

Xor(x, y) == (x \ y) \cup (y \ x)

Min(a, b) == IF a < b THEN a ELSE b

\* trailing_zeros of a non-zero word; 64 for zero.
trailing_zeros(x) == IF x = {} THEN 64 ELSE CHOOSE i \in x : \A j \in x : i <= j

\* position of the highest set bit (63 - leading_zeros) of a non-zero word.
highest_bit(x) == CHOOSE i \in x : \A j \in x : j <= i

(***************************************************************************)
(* vector.rs: constants                                                    *)
(***************************************************************************)
FULL_10 == 0..9

FULL_60 == 0..59

BOARD_MASK == 0..39

replicate_row(row) ==
    row \cup Shl(row, 10) \cup Shl(row, 20) \cup Shl(row, 30) \cup Shl(row, 40) \cup Shl(row, 50)

LEFT_50 == replicate_row(0..8)

RIGHT_50 == replicate_row(1..9)

SPAWN == Shl(FULL_10, 50) \cup Shl(FULL_10, 40)

shift_left_signed(n, by) == IF by >= 0 THEN Shl(n, by) ELSE Shr(n, -by)

max4(a, b, c, d) ==
    LET max(x, y) == IF x > y THEN x ELSE y
    IN  max(a, max(b, max(c, d)))

Shapes == 0..6

Orientations == 0..3

PhysicsSet == {"SRS", "Jstris", "Tetrio"}

I == 0

J == 1

L == 2

O == 3

S == 4

T == 5

Z == 6

North == 0

East == 1

South == 2

West == 3

Orientation_cw(o) == (o + 1) % 4

Orientation_half(o) == (o + 2) % 4

Orientation_ccw(o) == (o + 3) % 4

(***************************************************************************)
(* vector.rs: Collision                                                    *)
(***************************************************************************)
Collision_make(minoes) ==
    [shifts |-> [k \in 1..4 |-> minoes[k][1] + minoes[k][2] * 10],
     mask |-> replicate_row(Shr(FULL_10, minoes[1][1]) \cap Shr(FULL_10, minoes[2][1])
                            \cap Shr(FULL_10, minoes[3][1]) \cap Shr(FULL_10, minoes[4][1])),
     placeable_shift |-> 24 + 10 * max4(minoes[1][2], minoes[2][2], minoes[3][2], minoes[4][2])]

COLLISION_MINOES ==
    << << <<<<0,0>>, <<1,0>>, <<2,0>>, <<3,0>>>>, <<<<0,0>>, <<0,1>>, <<0,2>>, <<0,3>>>>,
          <<<<0,0>>, <<1,0>>, <<2,0>>, <<3,0>>>>, <<<<0,0>>, <<0,1>>, <<0,2>>, <<0,3>>>> >>,
       << <<<<0,0>>, <<1,0>>, <<2,0>>, <<0,1>>>>, <<<<0,0>>, <<0,1>>, <<0,2>>, <<1,2>>>>,
          <<<<2,0>>, <<0,1>>, <<1,1>>, <<2,1>>>>, <<<<0,0>>, <<1,0>>, <<1,1>>, <<1,2>>>> >>,
       << <<<<0,0>>, <<1,0>>, <<2,0>>, <<2,1>>>>, <<<<0,0>>, <<1,0>>, <<0,1>>, <<0,2>>>>,
          <<<<0,0>>, <<0,1>>, <<1,1>>, <<2,1>>>>, <<<<1,0>>, <<1,1>>, <<0,2>>, <<1,2>>>> >>,
       << <<<<0,0>>, <<1,0>>, <<0,1>>, <<1,1>>>>, <<<<0,0>>, <<1,0>>, <<0,1>>, <<1,1>>>>,
          <<<<0,0>>, <<1,0>>, <<0,1>>, <<1,1>>>>, <<<<0,0>>, <<1,0>>, <<0,1>>, <<1,1>>>> >>,
       << <<<<0,0>>, <<1,0>>, <<1,1>>, <<2,1>>>>, <<<<1,0>>, <<0,1>>, <<1,1>>, <<0,2>>>>,
          <<<<0,0>>, <<1,0>>, <<1,1>>, <<2,1>>>>, <<<<1,0>>, <<0,1>>, <<1,1>>, <<0,2>>>> >>,
       << <<<<0,0>>, <<1,0>>, <<2,0>>, <<1,1>>>>, <<<<0,0>>, <<0,1>>, <<1,1>>, <<0,2>>>>,
          <<<<1,0>>, <<0,1>>, <<1,1>>, <<2,1>>>>, <<<<1,0>>, <<0,1>>, <<1,1>>, <<1,2>>>> >>,
       << <<<<1,0>>, <<2,0>>, <<0,1>>, <<1,1>>>>, <<<<0,0>>, <<0,1>>, <<1,1>>, <<1,2>>>>,
          <<<<1,0>>, <<2,0>>, <<0,1>>, <<1,1>>>>, <<<<0,0>>, <<0,1>>, <<1,1>>, <<1,2>>>> >> >>

COLLISION == [s \in Shapes |-> [o \in Orientations |-> Collision_make(COLLISION_MINOES[s + 1][o + 1])]]

Collision_viable(c, board) ==
    LET collisions == Shr(board, c.shifts[1]) \cup Shr(board, c.shifts[2])
                      \cup Shr(board, c.shifts[3]) \cup Shr(board, c.shifts[4])
    IN  Not(collisions) \cap c.mask

\* Collision::placeable without the grounding step.
Collision_placeable_floating(c, reachable) ==
    Shr(Shl(reachable, c.placeable_shift), c.placeable_shift)

Collision_placeable(c, reachable) ==
    LET grounded == reachable \ Shl(reachable, 10)
    IN  Shr(Shl(grounded, c.placeable_shift), c.placeable_shift)

(***************************************************************************)
(* vector.rs: PVec                                                         *)
(***************************************************************************)
or_down(self, viable) == self \cup (Shr(self, 10) \cap viable)

or_left(self, viable) == self \cup (Shr(self, 1) \cap LEFT_50 \cap viable)

or_right(self, viable) == self \cup (Shl(self, 1) \cap RIGHT_50 \cap viable)

RECURSIVE flood_fill(_, _)
flood_fill(self, viable) ==
    LET next == or_right(or_left(or_down(self, viable), viable), viable)
    IN  IF self /= next THEN flood_fill(next, viable) ELSE self

PVec_contains(self, col, row) == (col + row * 10) \in self

(***************************************************************************)
(* vector.rs: Kicks                                                        *)
(***************************************************************************)
make_one(off) ==
    LET cols == off[1]
        rows == off[2]
        row_mask == shift_left_signed(FULL_10, cols) \cap FULL_10
        board_mask == shift_left_signed(replicate_row(row_mask), rows * 10) \cap FULL_60
        signed_shift == cols + rows * 10
    IN  [rotate |-> (signed_shift + 64) % 64, mask |-> board_mask]

Kicks_make(cw_offsets, half_offsets, ccw_offsets) ==
    LET conv(t) == [i \in 1..4 |-> [j \in 1..Len(t[i]) |-> make_one(t[i][j])]]
    IN  [cw |-> conv(cw_offsets), half |-> conv(half_offsets), ccw |-> conv(ccw_offsets)]

SRS_I_CW ==
    << <<<< 2,-2>>, << 0,-2>>, << 3,-2>>, << 0,-3>>, << 3, 0>>>>,
       <<<<-2, 1>>, <<-3, 1>>, << 0, 1>>, <<-3, 3>>, << 0, 0>>>>,
       <<<< 1,-1>>, << 3,-1>>, << 0,-1>>, << 3, 0>>, << 0,-3>>>>,
       <<<<-1, 2>>, << 0, 2>>, <<-3, 2>>, << 0, 0>>, <<-3, 3>>>> >>

SRS_I_CCW ==
    << <<<< 1,-2>>, << 0,-2>>, << 3,-2>>, << 0, 0>>, << 3,-3>>>>,
       <<<<-2, 2>>, << 0, 2>>, <<-3, 2>>, << 0, 3>>, <<-3, 0>>>>,
       <<<< 2,-1>>, << 3,-1>>, << 0,-1>>, << 3,-3>>, << 0, 0>>>>,
       <<<<-1, 1>>, <<-3, 1>>, << 0, 1>>, <<-3, 0>>, << 0, 3>>>> >>

SRS_JLSTZ_CW ==
    << <<<< 1,-1>>, << 0,-1>>, << 0, 0>>, << 1,-3>>, << 0,-3>>>>,
       <<<<-1, 0>>, << 0, 0>>, << 0,-1>>, <<-1, 2>>, << 0, 2>>>>,
       <<<< 0, 0>>, << 1, 0>>, << 1, 1>>, << 0,-2>>, << 1,-2>>>>,
       <<<< 0, 1>>, <<-1, 1>>, <<-1, 0>>, << 0, 3>>, <<-1, 3>>>> >>

SRS_JLSTZ_CCW ==
    << <<<< 0,-1>>, << 1,-1>>, << 1, 0>>, << 0,-3>>, << 1,-3>>>>,
       <<<<-1, 1>>, << 0, 1>>, << 0, 0>>, <<-1, 3>>, << 0, 3>>>>,
       <<<< 1, 0>>, << 0, 0>>, << 0, 1>>, << 1,-2>>, << 0,-2>>>>,
       <<<< 0, 0>>, <<-1, 0>>, <<-1,-1>>, << 0, 2>>, <<-1, 2>>>> >>

NO_HALF == << <<>>, <<>>, <<>>, <<>> >>

JSTRIS_HALF ==
    << <<<< 0,-1>>, << 0, 0>>>>,
       <<<<-1, 0>>, << 0, 0>>>>,
       <<<< 0, 1>>, << 0, 0>>>>,
       <<<< 1, 0>>, << 0, 0>>>> >>

TETRIO_I_CW ==
    << <<<< 2,-2>>, << 3,-2>>, << 0,-2>>, << 0,-3>>, << 3, 0>>>>,
       <<<<-2, 1>>, <<-3, 1>>, << 0, 1>>, <<-3, 3>>, << 0, 0>>>>,
       <<<< 1,-1>>, << 3,-1>>, << 0,-1>>, << 3, 0>>, << 0,-3>>>>,
       <<<<-1, 2>>, << 0, 2>>, <<-3, 2>>, << 0, 0>>, <<-3, 3>>>> >>

TETRIO_I_HALF ==
    << <<<< 0,-1>>, << 0, 0>>, << 1, 0>>, <<-1, 0>>, << 1,-1>>, <<-1,-1>>>>,
       <<<< 0, 1>>, << 0, 0>>, <<-1, 0>>, << 1, 0>>, <<-1, 1>>, << 1, 1>>>>,
       <<<<-1, 0>>, << 0, 0>>, << 0, 2>>, << 0, 1>>, <<-1, 2>>, <<-1, 1>>>>,
       <<<< 1, 0>>, << 0, 0>>, << 0, 2>>, << 0, 1>>, << 1, 2>>, << 1, 1>>>> >>

TETRIO_I_CCW ==
    << <<<< 1,-2>>, << 0,-2>>, << 3,-2>>, << 3,-3>>, << 0, 0>>>>,
       <<<<-2, 2>>, <<-3, 2>>, << 0, 2>>, <<-3, 0>>, << 0, 3>>>>,
       <<<< 2,-1>>, << 0,-1>>, << 3,-1>>, << 0, 0>>, << 3,-3>>>>,
       <<<<-1, 1>>, << 0, 1>>, <<-3, 1>>, << 0, 3>>, <<-3, 0>>>> >>

TETRIO_JLSTZ_HALF ==
    << <<<< 0,-1>>, << 0, 0>>, << 1, 0>>, <<-1, 0>>, << 1,-1>>, <<-1,-1>>>>,
       <<<<-1, 0>>, << 0, 0>>, << 0, 2>>, << 0, 1>>, <<-1, 2>>, <<-1, 1>>>>,
       <<<< 0, 1>>, << 0, 0>>, <<-1, 0>>, << 1, 0>>, <<-1, 1>>, << 1, 1>>>>,
       <<<< 1, 0>>, << 0, 0>>, << 0, 2>>, << 0, 1>>, << 1, 2>>, << 1, 1>>>> >>

SRS_I == Kicks_make(SRS_I_CW, NO_HALF, SRS_I_CCW)

SRS_JLSTZ == Kicks_make(SRS_JLSTZ_CW, NO_HALF, SRS_JLSTZ_CCW)

\* JSTRIS_I with TETRIO's cw and ccw kicks.
JSTRIS_I_swapped == Kicks_make(TETRIO_I_CW, JSTRIS_HALF, TETRIO_I_CCW)

JSTRIS_I == Kicks_make(SRS_I_CW, JSTRIS_HALF, SRS_I_CCW)

JSTRIS_JLSTZ == Kicks_make(SRS_JLSTZ_CW, JSTRIS_HALF, SRS_JLSTZ_CCW)

TETRIO_I == Kicks_make(TETRIO_I_CW, TETRIO_I_HALF, TETRIO_I_CCW)

\* TETRIO_JLSTZ with no kicks at all.
TETRIO_JLSTZ_no_kicks == Kicks_make(NO_HALF, NO_HALF, NO_HALF)

TETRIO_JLSTZ == Kicks_make(SRS_JLSTZ_CW, TETRIO_JLSTZ_HALF, SRS_JLSTZ_CCW)

\* The loop of do_kicks from kick number i on: a position that an earlier
\* kick has moved is removed from `from` and is not kicked again.
RECURSIVE do_kicks_from(_, _, _, _, _)
do_kicks_from(i, from, to, viable, kicks) ==
    IF i > Len(kicks) THEN to
    ELSE LET kicked == rotate_left(from, kicks[i].rotate) \cap kicks[i].mask \cap viable
         IN  do_kicks_from(i + 1, Xor(from, rotate_right(kicked, kicks[i].rotate)),
                           to \cup kicked, viable, kicks)

do_kicks(initial, from, viable, table) == do_kicks_from(1, from, {}, viable, table[initial + 1])

Kicks_cw(k, initial, from, viable) == do_kicks(initial, from, viable, k.cw)

Kicks_half(k, initial, from, viable) == do_kicks(initial, from, viable, k.half)

Kicks_ccw(k, initial, from, viable) == do_kicks(initial, from, viable, k.ccw)

(***************************************************************************)
(* vector.rs: PlacementMachine and Placements::place                       *)
(***************************************************************************)
\* The match on (physics, shape) in PlacementMachine::step.
KicksFor(physics, shape) ==
    CASE physics = "SRS" /\ shape = I -> SRS_I
      [] physics = "SRS" /\ shape /= I -> SRS_JLSTZ
      [] physics = "Jstris" /\ shape = I -> JSTRIS_I
      [] physics = "Jstris" /\ shape /= I -> JSTRIS_JLSTZ
      [] physics = "Tetrio" /\ shape = I -> TETRIO_I
      [] physics = "Tetrio" /\ shape /= I -> TETRIO_JLSTZ

any_dirty(m) == \E o \in Orientations : m.dirty[o]

\* step that leaves the orientation it visited dirty.
step_kicks_stay_dirty(m, o, filled, k) ==
    LET o_0 == o
        o_90 == Orientation_cw(o)
        o_180 == Orientation_half(o)
        o_270 == Orientation_ccw(o)
        grow(st, t, more) ==
            IF (st.reachable[t] \cap more) /= more
            THEN [reachable |-> [st.reachable EXCEPT ![t] = @ \cup more],
                  dirty |-> [st.dirty EXCEPT ![t] = TRUE]]
            ELSE st
        clean(st) ==
            [m EXCEPT !.reachable = st.reachable,
                      !.dirty = [st.dirty EXCEPT ![o_0] = TRUE]]
    IN  clean(grow(grow(grow([reachable |-> [m.reachable EXCEPT ![o_0] = filled],
                              dirty |-> m.dirty],
                             o_90, Kicks_cw(k, o, filled, m.viable[o_90])),
                        o_180, Kicks_half(k, o, filled, m.viable[o_180])),
                   o_270, Kicks_ccw(k, o, filled, m.viable[o_270])))

\* step that adds the kicked positions without marking their orientation dirty.
step_kicks_no_mark(m, o, filled, k) ==
    LET o_0 == o
        o_90 == Orientation_cw(o)
        o_180 == Orientation_half(o)
        o_270 == Orientation_ccw(o)
        grow(st, t, more) ==
            IF (st.reachable[t] \cap more) /= more
            THEN [reachable |-> [st.reachable EXCEPT ![t] = @ \cup more],
                  dirty |-> st.dirty]
            ELSE st
        clean(st) ==
            [m EXCEPT !.reachable = st.reachable,
                      !.dirty = [st.dirty EXCEPT ![o_0] = FALSE]]
    IN  clean(grow(grow(grow([reachable |-> [m.reachable EXCEPT ![o_0] = filled],
                              dirty |-> m.dirty],
                             o_90, Kicks_cw(k, o, filled, m.viable[o_90])),
                        o_180, Kicks_half(k, o, filled, m.viable[o_180])),
                   o_270, Kicks_ccw(k, o, filled, m.viable[o_270])))

\* The body of step from the kicks on: `filled` is the flood-filled reachable
\* set of orientation o, k the kick table of the match above.
step_kicks(m, o, filled, k) ==
    LET o_0 == o
        o_90 == Orientation_cw(o)
        o_180 == Orientation_half(o)
        o_270 == Orientation_ccw(o)
        grow(st, t, more) ==
            IF (st.reachable[t] \cap more) /= more
            THEN [reachable |-> [st.reachable EXCEPT ![t] = @ \cup more],
                  dirty |-> [st.dirty EXCEPT ![t] = TRUE]]
            ELSE st
        clean(st) ==
            [m EXCEPT !.reachable = st.reachable,
                      !.dirty = [st.dirty EXCEPT ![o_0] = FALSE]]
    IN  clean(grow(grow(grow([reachable |-> [m.reachable EXCEPT ![o_0] = filled],
                              dirty |-> m.dirty],
                             o_90, Kicks_cw(k, o, filled, m.viable[o_90])),
                        o_180, Kicks_half(k, o, filled, m.viable[o_180])),
                   o_270, Kicks_ccw(k, o, filled, m.viable[o_270])))

step(m, o) ==
    IF ~m.dirty[o] THEN m
    ELSE step_kicks(m, o, flood_fill(m.reachable[o], m.viable[o]),
                    KicksFor(m.physics, m.shape))

RECURSIVE machine_loop(_)
machine_loop(m) ==
    IF any_dirty(m) THEN machine_loop(step(step(step(step(m, North), East), South), West))
    ELSE m

machine_placeable(m, o) == Collision_placeable(COLLISION[m.shape][o], m.reachable[o])

Placements_place(board, shape, physics) ==
    LET collision == COLLISION[shape]
    IN  IF shape = O
        THEN LET viable == Collision_viable(collision[0], board)
                 reachable == flood_fill(SPAWN \cap viable, viable)
                 placeable == Collision_placeable(collision[0], reachable)
             IN  [shape |-> shape, board |-> board, positions |-> [o \in Orientations |-> placeable]]
        ELSE LET viable == [o \in Orientations |-> Collision_viable(collision[o], board)]
                 machine == machine_loop([viable |-> viable,
                                          reachable |-> [o \in Orientations |-> SPAWN \cap viable[o]],
                                          dirty |-> [o \in Orientations |-> TRUE],
                                          shape |-> shape,
                                          physics |-> physics])
             IN  [shape |-> shape, board |-> board,
                  positions |-> [o \in Orientations |-> machine_placeable(machine, o)]]

Orientation_canonical(o, shape) ==
    LET SYM_90 == <<North, North, North, North>>
        SYM_180 == <<North, East, North, East>>
        SYM_360 == <<North, East, South, West>>
        CANONICAL == <<SYM_180, SYM_360, SYM_360, SYM_90, SYM_180, SYM_360, SYM_180>>
    IN  CANONICAL[shape + 1][o + 1]

\* canonical() that keeps every orientation.
Placements_canonical_keep(self) == self

Placements_canonical(self) ==
    IF self.shape = O
    THEN [self EXCEPT !.positions = [o \in Orientations |-> IF o = 0 THEN self.positions[0] ELSE {}]]
    ELSE IF self.shape \in {I, S, Z}
    THEN [self EXCEPT !.positions =
              [o \in Orientations |->
                  CASE o = 0 -> self.positions[0] \cup self.positions[2]
                    [] o = 1 -> self.positions[1] \cup self.positions[3]
                    [] OTHER -> {}]]
    ELSE self

Placements_contains(self, piece) ==
    /\ self.shape = piece.shape
    /\ PVec_contains(self.positions[piece.orientation], piece.col, piece.row)

(***************************************************************************)
(* gameplay.rs: Piece                                                      *)
(***************************************************************************)
PIECE_SHAPES ==
    << << {0, 1, 2, 3}, {0, 10, 20, 30}, {0, 1, 2, 3}, {0, 10, 20, 30} >>,
       << {0, 1, 2, 10}, {0, 10, 20, 21}, {2, 10, 11, 12}, {0, 1, 11, 21} >>,
       << {0, 1, 2, 12}, {0, 1, 10, 20}, {0, 10, 11, 12}, {1, 11, 20, 21} >>,
       << {0, 1, 10, 11}, {0, 1, 10, 11}, {0, 1, 10, 11}, {0, 1, 10, 11} >>,
       << {0, 1, 11, 12}, {1, 10, 11, 20}, {0, 1, 11, 12}, {1, 10, 11, 20} >>,
       << {0, 1, 2, 11}, {0, 10, 11, 20}, {1, 10, 11, 12}, {1, 10, 11, 21} >>,
       << {1, 2, 10, 11}, {0, 10, 11, 21}, {1, 2, 10, 11}, {0, 10, 11, 21} >> >>

PIECE_MAX_COLS ==
    << <<6, 9, 6, 9>>, <<7, 8, 7, 8>>, <<7, 8, 7, 8>>, <<8, 8, 8, 8>>,
       <<7, 8, 7, 8>>, <<7, 8, 7, 8>>, <<7, 8, 7, 8>> >>

JLSTZ_KICKS ==
    << <<<<1, -1>>, <<0, -1>>, <<0, 0>>, <<1, -3>>, <<0, -3>>>>,
       <<<<-1, 0>>, <<0, 0>>, <<0, -1>>, <<-1, 2>>, <<0, 2>>>>,
       <<<<0, 0>>, <<1, 0>>, <<1, 1>>, <<0, -2>>, <<1, -2>>>>,
       <<<<0, 1>>, <<-1, 1>>, <<-1, 0>>, <<0, 3>>, <<-1, 3>>>> >>

I_KICKS ==
    << <<<<2, -2>>, <<0, -2>>, <<3, -2>>, <<0, -3>>, <<3, 0>>>>,
       <<<<-2, 1>>, <<-3, 1>>, <<0, 1>>, <<-3, 3>>, <<0, 0>>>>,
       <<<<1, -1>>, <<3, -1>>, <<0, -1>>, <<3, 0>>, <<0, -3>>>>,
       <<<<-1, 2>>, <<0, 2>>, <<-3, 2>>, <<0, 0>>, <<-3, 3>>>> >>

O_KICKS == [i \in 1..4 |-> [j \in 1..5 |-> <<0, 0>>]]

KICKS == <<I_KICKS, JLSTZ_KICKS, JLSTZ_KICKS, O_KICKS, JLSTZ_KICKS, JLSTZ_KICKS, JLSTZ_KICKS>>

MkPiece(shape, col, row, orientation) ==
    [shape |-> shape, col |-> col, row |-> row, orientation |-> orientation]

Piece_new(shape) == MkPiece(shape, 0, 4, North)

Piece_pack(self) == self.orientation * 4096 + self.shape * 256 + self.col * 16 + self.row

\* A shift of 64 or more is masked to its low six bits where the build has no
\* overflow checks; callers model the panic of a build that has them.
as_bits(self) ==
    Shl(PIECE_SHAPES[self.shape + 1][self.orientation + 1], (self.row * 10 + self.col) % 64)

as_board(self) == as_bits(self) \cap BOARD_MASK

collides_in(self, board) == (as_bits(self) \cap board) /= {}

in_bounds(self) ==
    /\ self.col >= 0
    /\ self.col <= PIECE_MAX_COLS[self.shape + 1][self.orientation + 1]
    /\ self.row >= 0
    /\ self.row <= 5

Piece_left(self, board) ==
    LET new == [self EXCEPT !.col = self.col - 1]
    IN  IF new.col < 0 \/ collides_in(new, board) THEN self ELSE new

Piece_right(self, board) ==
    LET new == [self EXCEPT !.col = self.col + 1]
        max_col == PIECE_MAX_COLS[self.shape + 1][self.orientation + 1]
    IN  IF new.col > max_col \/ collides_in(new, board) THEN self ELSE new

Piece_down(self, board) ==
    LET new == [self EXCEPT !.row = self.row - 1]
    IN  IF new.row < 0 \/ collides_in(new, board) THEN self ELSE new

can_place(self, board) ==
    LET bits == as_bits(self)
    IN  /\ (bits \cap BOARD_MASK) /= {}
        /\ (bits \ BOARD_MASK) = {}
        /\ Piece_down(self, board) = self

\* The kick loop of Piece::cw and Piece::ccw from kick number i on; sign is
\* 1 for cw (kicks added) and -1 for ccw (kicks subtracted).
RECURSIVE try_kicks(_, _, _, _, _, _)
try_kicks(self, board, orientation, kicks, sign, i) ==
    IF i > Len(kicks) THEN self
    ELSE LET new == MkPiece(self.shape, self.col + sign * kicks[i][1],
                            self.row + sign * kicks[i][2], orientation)
         IN  IF in_bounds(new) /\ ~collides_in(new, board) THEN new
             ELSE try_kicks(self, board, orientation, kicks, sign, i + 1)

Piece_cw(self, board) ==
    try_kicks(self, board, Orientation_cw(self.orientation),
              KICKS[self.shape + 1][self.orientation + 1], 1, 1)

\* Piece::ccw with the kicks added instead of subtracted.
Piece_ccw_added(self, board) ==
    LET orientation == Orientation_ccw(self.orientation)
    IN  try_kicks(self, board, orientation, KICKS[self.shape + 1][orientation + 1], 1, 1)

Piece_ccw(self, board) ==
    LET orientation == Orientation_ccw(self.orientation)
    IN  try_kicks(self, board, orientation, KICKS[self.shape + 1][orientation + 1], -1, 1)

\* The four iterations of the loop of Piece::place, top line first.
RECURSIVE place_lines(_, _, _, _, _)
place_lines(k, unordered_board, ordered_board, complete_lines, complete_lines_shift) ==
    IF k = 0 THEN Shl(ordered_board, complete_lines_shift) \cup complete_lines
    ELSE LET this_line == Shr(unordered_board, 30) \cap FULL_10
             rest == Shl(unordered_board, 10)
         IN  IF this_line = FULL_10
             THEN place_lines(k - 1, rest, ordered_board,
                              Shl(complete_lines, 10) \cup this_line, complete_lines_shift + 10)
             ELSE place_lines(k - 1, rest, Shl(ordered_board, 10) \cup this_line,
                              complete_lines, complete_lines_shift)

\* place that leaves every row where it is.
Piece_place_in_place(self, board) == (board \cup as_bits(self)) \cap BOARD_MASK

Piece_place(self, board) == place_lines(4, board \cup as_bits(self), {}, {}, 0)

(***************************************************************************)
(* gameplay.rs: Board predicates                                           *)
(***************************************************************************)
ROW_LSB == {0, 10, 20, 30}

ROW_MSB == {9, 19, 29, 39}

\* has_isolated_cell with a column taken for bounded by its left side alone.
has_isolated_cell_left(self) ==
    LET full == Shr(self, 30) \cap Shr(self, 20) \cap Shr(self, 10) \cap self
        not_empty == Shr(self, 30) \cup Shr(self, 20) \cup Shr(self, 10) \cup self
        bounded_cells == (Shl(self, 1) \cup ROW_LSB) \cup self
        bounded == Shr(bounded_cells, 30) \cap Shr(bounded_cells, 20)
                   \cap Shr(bounded_cells, 10) \cap bounded_cells
    IN  ((not_empty \ full) \cap bounded) /= {}

\* has_isolated_cell for which a wall bounds no cell.
has_isolated_cell_no_walls(self) ==
    LET full == Shr(self, 30) \cap Shr(self, 20) \cap Shr(self, 10) \cap self
        not_empty == Shr(self, 30) \cup Shr(self, 20) \cup Shr(self, 10) \cup self
        bounded_cells == ((Shl(self, 1) \ ROW_LSB) \cap (Shr(self, 1) \ ROW_MSB)) \cup self
        bounded == Shr(bounded_cells, 30) \cap Shr(bounded_cells, 20)
                   \cap Shr(bounded_cells, 10) \cap bounded_cells
    IN  ((not_empty \ full) \cap bounded) /= {}

has_isolated_cell(self) ==
    LET full == Shr(self, 30) \cap Shr(self, 20) \cap Shr(self, 10) \cap self
        not_empty == Shr(self, 30) \cup Shr(self, 20) \cup Shr(self, 10) \cup self
        left_bounded == Shl(self, 1) \cup ROW_LSB
        right_bounded == Shr(self, 1) \cup ROW_MSB
        bounded_cells == (left_bounded \cap right_bounded) \cup self
        bounded == Shr(bounded_cells, 30) \cap Shr(bounded_cells, 20)
                   \cap Shr(bounded_cells, 10) \cap bounded_cells
    IN  ((not_empty \ full) \cap bounded) /= {}

COL_0 == {0, 10, 20, 30}

check_col(b, col_mask, left_mask) ==
    /\ ((b \cup Shr(b, 1)) \cap col_mask) = col_mask
    /\ Cardinality(b \cap left_mask) % 4 /= 0

has_imbalanced_split(self) ==
    \E c \in 1..7 : check_col(self, Shl(COL_0, c), UNION {Shl(COL_0, k) : k \in 0..c})

(***************************************************************************)
(* vector.rs: Iterator for Placements                                      *)
(***************************************************************************)
\* One call of next(): the item (or "None") and the iterator afterwards.
Placements_next(self) ==
    LET live == {o \in Orientations : self.positions[o] /= {}}
    IN  IF live = {} THEN [item |-> "None", self |-> self]
        ELSE LET orientation == CHOOSE o \in live : \A q \in live : o <= q
                 cell == trailing_zeros(self.positions[orientation])
                 col == cell % 10
                 row == cell \div 10
                 piece == MkPiece(self.shape, col, row, orientation)
             IN  [item |-> <<piece, Piece_place(piece, self.board)>>,
                  self |-> [self EXCEPT !.positions[orientation] = Xor(@, {cell})]]

\* Up to 2^k calls of next(), stopping once the iterator is exhausted.
RECURSIVE times_next(_, _)
times_next(st, k) ==
    IF k = 0
    THEN LET r == Placements_next(st.self)
         IN  IF r.item = "None" THEN st
             ELSE [self |-> r.self, out |-> Append(st.out, r.item)]
    ELSE LET half == times_next(st, k - 1)
         IN  IF half = st THEN st ELSE times_next(half, k - 1)

\* for item in placements { ... }: the items in the order next() yields them.
\* There are at most 4 * 60 < 2^8 positions to yield.
Placements_collect(self) == times_next([self |-> self, out |-> <<>>], 8).out

\* piece.place(self.board) of an iterator: with debug assertions and overflow
\* checks on, a shift of 64 or more in as_bits and a piece that cannot be
\* placed or overlaps the board panic.
place_in_build(piece, board, debug) ==
    IF debug /\ (\/ piece.row * 10 + piece.col >= 64
                 \/ ~can_place(piece, board)
                 \/ collides_in(piece, board))
    THEN [result |-> "panic", board |-> {}]
    ELSE [result |-> "placed", board |-> Piece_place(piece, board)]

Placements_next_back(self, debug) ==
    IF \A o \in Orientations : self.positions[o] = {}
    THEN [item |-> "None", panicked |-> FALSE, self |-> self]
    ELSE LET orientation == CHOOSE o \in Orientations :
                                /\ self.positions[o] /= {}
                                /\ \A q \in Orientations : self.positions[q] /= {} => q <= o
             cell == highest_bit(self.positions[orientation])
             col == cell \div 10
             row == cell % 10
             piece == MkPiece(self.shape, col, row, orientation)
         IN  [item |-> <<piece, place_in_build(piece, self.board, debug).board>>,
              panicked |-> place_in_build(piece, self.board, debug).result = "panic",
              self |-> [self EXCEPT !.positions[orientation] = Xor(@, {cell})]]

\* Repeated next_back until None or a panic; a panic ends the drain.
RECURSIVE drain_back(_, _, _)
drain_back(self, out, debug) ==
    IF Placements_next_back(self, debug).item = "None"
    THEN [items |-> out, panicked |-> FALSE]
    ELSE IF Placements_next_back(self, debug).panicked
    THEN [items |-> out, panicked |-> TRUE]
    ELSE drain_back(Placements_next_back(self, debug).self,
                    Append(out, Placements_next_back(self, debug).item), debug)

(***************************************************************************)
(* piece_placer.rs                                                         *)
(***************************************************************************)
RECURSIVE spawn_queue(_, _, _)
spawn_queue(shape, k, queue) ==
    IF k = 40 THEN queue
    ELSE LET piece == MkPiece(shape, k % 10, 4, k \div 10)
         IN  spawn_queue(shape, k + 1, IF in_bounds(piece) THEN Append(queue, piece) ELSE queue)

PiecePlacer_new(b, shape) ==
    LET queue == spawn_queue(shape, 0, <<>>)
    IN  [board |-> b, queue |-> queue,
         seen |-> {Piece_pack(queue[k]) : k \in 1..Len(queue)} \cup {Piece_pack(Piece_new(shape))}]

\* The inner for loop of next(): push the unseen ones of the five moves.
RECURSIVE push_moves(_, _, _, _)
push_moves(moves, k, queue, seen) ==
    IF k > Len(moves) THEN [queue |-> queue, seen |-> seen]
    ELSE IF Piece_pack(moves[k]) \notin seen
         THEN push_moves(moves, k + 1, Append(queue, moves[k]), seen \cup {Piece_pack(moves[k])})
         ELSE push_moves(moves, k + 1, queue, seen)

\* One iteration of the loop of next(); item is "None" while the loop goes on
\* and "Empty" when queue.pop() fails.
PiecePlacer_pop(self) ==
    IF self.queue = <<>> THEN [item |-> "Empty", self |-> self]
    ELSE LET piece == self.queue[Len(self.queue)]
             popped == SubSeq(self.queue, 1, Len(self.queue) - 1)
             moves == <<Piece_left(piece, self.board), Piece_right(piece, self.board),
                        Piece_down(piece, self.board), Piece_cw(piece, self.board),
                        Piece_ccw(piece, self.board)>>
             pushed == push_moves(moves, 1, popped, self.seen)
             after == [self EXCEPT !.queue = pushed.queue, !.seen = pushed.seen]
         IN  IF can_place(piece, self.board)
             THEN [item |-> <<piece, Piece_place(piece, self.board)>>, self |-> after]
             ELSE [item |-> "None", self |-> after]

\* Up to 2^k iterations of the loop of next(), stopping once the queue is empty.
RECURSIVE times_pop(_, _)
times_pop(st, k) ==
    IF k = 0
    THEN LET r == PiecePlacer_pop(st.self)
         IN  IF r.item = "Empty" THEN st
             ELSE [self |-> r.self,
                   out |-> IF r.item = "None" THEN st.out ELSE Append(st.out, r.item)]
    ELSE LET half == times_pop(st, k - 1)
         IN  IF half = st THEN st ELSE times_pop(half, k - 1)

\* for item in PiecePlacer::new(..): every piece is pushed at most once and
\* there are at most 4 * 10 * 6 < 2^8 pieces in bounds.
PiecePlacer_collect(self) == times_pop([self |-> self, out |-> <<>>], 8).out

(***************************************************************************)
(* brokenboard.rs: BrokenBoard and BrokenPiece                             *)
(*                                                                         *)
(* A u8 bit vector (cleared_rows, rows) is the set of its set bits.        *)
(***************************************************************************)
count_ones(x) == Cardinality(x)

\* ExactSizeIterator::len, from size_hint
Placements_len(self) ==
    count_ones(self.positions[0]) + count_ones(self.positions[1])
    + count_ones(self.positions[2]) + count_ones(self.positions[3])

\* trailing_zeros of a u8: 8 for zero.
trailing_zeros_u8(x) == IF x = {} THEN 8 ELSE trailing_zeros(x)

\* The number a bit set stands for.
RECURSIVE value(_)
value(x) ==
    IF x = {} THEN 0
    ELSE LET i == CHOOSE j \in x : TRUE
         IN  2 ^ i + value(x \ {i})

BrokenBoard_empty == [board |-> {}, cleared_rows |-> {}, pieces |-> <<>>]

\* The loop of from_garbage over rows 3, 2, 1, 0.
RECURSIVE from_garbage_rows(_, _, _)
from_garbage_rows(row, garbage, st) ==
    IF row < 0 THEN st
    ELSE LET this_line == Shr(garbage, row * 10) \cap FULL_10
         IN  from_garbage_rows(row - 1, garbage,
                 IF this_line = FULL_10
                 THEN [st EXCEPT !.complete_lines = Shl(@, 10) \cup FULL_10,
                                 !.complete_lines_shift = @ + 10,
                                 !.cleared_rows = @ \cup {row}]
                 ELSE [st EXCEPT !.board = Shl(@, 10) \cup this_line])

from_garbage(garbage) ==
    LET st == from_garbage_rows(3, garbage,
                  [board |-> {}, cleared_rows |-> {}, complete_lines |-> {},
                   complete_lines_shift |-> 0])
    IN  [board |-> Shl(st.board, st.complete_lines_shift) \cup st.complete_lines,
         cleared_rows |-> st.cleared_rows,
         pieces |-> <<>>]

\* The loop of to_broken_bitboard over rows 3, 2, 1, 0.
RECURSIVE to_broken_rows(_, _, _, _)
to_broken_rows(row, cleared_rows, old, new) ==
    IF row < 0 THEN new
    ELSE IF row \in cleared_rows
         THEN to_broken_rows(row - 1, cleared_rows, Shr(old, 10), Shl(new, 10) \cup FULL_10)
         ELSE to_broken_rows(row - 1, cleared_rows, old,
                             Shl(new, 10) \cup (Shr(old, 10 * row) \cap FULL_10))

\* to_broken_bitboard that forgets the cleared rows.
to_broken_bitboard_plain(self) == self.board

to_broken_bitboard(self) == to_broken_rows(3, self.cleared_rows, self.board, {})

\* derive(Ord) on BrokenPiece: low_mino, shape, orientation, rows in turn.
BrokenPiece_lt(a, b) ==
    \/ a.low_mino < b.low_mino
    \/ /\ a.low_mino = b.low_mino
       /\ \/ a.shape < b.shape
          \/ /\ a.shape = b.shape
             /\ \/ a.orientation < b.orientation
                \/ /\ a.orientation = b.orientation
                   /\ value(a.rows) < value(b.rows)

\* sort_unstable that leaves the list as it is.
keep_order(pieces) == pieces

\* pieces.push(piece); pieces.sort_unstable() on an arbitrary list.
RECURSIVE sort_unstable(_)
sort_unstable(pieces) ==
    IF pieces = <<>> THEN <<>>
    ELSE LET least == CHOOSE k \in 1..Len(pieces) :
                          \A j \in 1..Len(pieces) : ~BrokenPiece_lt(pieces[j], pieces[k])
         IN  <<pieces[least]>>
             \o sort_unstable(SubSeq(pieces, 1, least - 1) \o SubSeq(pieces, least + 1, Len(pieces)))

\* The loop of BrokenBoard::place over rows 0..=3.
RECURSIVE place_rows(_, _, _, _, _)
place_rows(row, cleared_rows, minoes, field, st) ==
    IF row > 3 THEN st
    ELSE IF row \in cleared_rows
         THEN place_rows(row + 1, cleared_rows, minoes, field,
                         [st EXCEPT !.cleared_rows = @ \cup {row}])
         ELSE place_rows(row + 1, cleared_rows, minoes, field,
                  [rows |-> IF (minoes \cap st.row_mask) /= {} THEN st.rows \cup {row} ELSE st.rows,
                   cleared_rows |-> IF (field \cap st.row_mask) = st.row_mask
                                    THEN st.cleared_rows \cup {row} ELSE st.cleared_rows,
                   row_mask |-> Shl(st.row_mask, 10)])

BrokenBoard_place(self, piece) ==
    LET cleared_count == count_ones(self.cleared_rows)
        minoes == Shr(as_board(piece), cleared_count * 10)
        field == Shr(self.board, cleared_count * 10) \cup minoes
        st == place_rows(0, self.cleared_rows, minoes, field,
                         [rows |-> {}, cleared_rows |-> {}, row_mask |-> FULL_10])
        low_mino == (trailing_zeros(minoes) % 10) + trailing_zeros_u8(st.rows) * 10
    IN  [board |-> Piece_place(piece, self.board),
         cleared_rows |-> st.cleared_rows,
         pieces |-> sort_unstable(Append(self.pieces,
                        [low_mino |-> low_mino % 256,
                         shape |-> piece.shape,
                         orientation |-> Orientation_canonical(piece.orientation, piece.shape),
                         rows |-> st.rows]))]

\* The loop of BrokenPiece::board over rows 0..=3.
RECURSIVE board_rows(_, _, _, _)
board_rows(row, rows, connected, broken) ==
    IF row > 3 THEN [connected |-> connected, broken |-> broken]
    ELSE IF row \in rows
         THEN board_rows(row + 1, rows, Shr(connected, 10),
                         broken \cup Shl(FULL_10 \cap connected, row * 10))
         ELSE board_rows(row + 1, rows, connected, broken)

\* BrokenPiece::board: panics when assert_eq!(connected, 0) fails, and
\* returns the board otherwise.
BrokenPiece_board(self) ==
    LET shape_bits == PIECE_SHAPES[self.shape + 1][self.orientation + 1]
        connected == Shl(Shr(shape_bits, trailing_zeros(shape_bits)), self.low_mino % 10)
        r == board_rows(0, self.rows, connected, {})
    IN  [panic |-> r.connected /= {}, board |-> r.broken]

\* The loop of is_valid over the pieces: "true", "false" or "panic".
RECURSIVE valid_pieces(_, _, _)
valid_pieces(pieces, k, b) ==
    IF k > Len(pieces) THEN "true"
    ELSE LET piece_board == BrokenPiece_board(pieces[k])
         IN  IF piece_board.panic THEN "panic"
             ELSE IF (b \cap piece_board.board) /= piece_board.board THEN "false"
             ELSE valid_pieces(pieces, k + 1, Xor(b, piece_board.board))

full_line_count(b) ==
    LET full(i) == (b \cap Shl(FULL_10, 10 * i)) = Shl(FULL_10, 10 * i)
    IN  Cardinality({i \in 0..3 : \A j \in 0..i : full(j)})

\* is_valid: "true", "false", or "panic" when BrokenPiece::board panics.
is_valid(self) ==
    IF self.board /= from_garbage(self.board).board THEN "false"
    ELSE IF full_line_count(self.board) /= count_ones(self.cleared_rows) THEN "false"
    ELSE valid_pieces(self.pieces, 1, to_broken_bitboard(self))

\* The closures of placeable on u8 values.  A shift by 8 is masked to a shift
\* by 0 where the build has no overflow checks.
below_top_1(n) == IF n = {} \/ 7 \in n THEN {} ELSE 0..highest_bit(n)

above_bottom_1(n) == IF n = {} THEN 0..7 ELSE trailing_zeros(n)..7

\* The Option<Piece> of placeable, and its panic in a build with assertions.
NoPiece == [result |-> "None", piece |-> MkPiece(0, 0, 0, 0)]

SomePiece(p) == [result |-> "Some", piece |-> p]

PiecePanic == [result |-> "panic", piece |-> MkPiece(0, 0, 0, 0)]

contains(pieces, piece) == \E k \in 1..Len(pieces) : pieces[k] = piece

\* The end of placeable, from can_place on.  A build with assertions panics
\* on the negative shift of as_bits, on the assertions of Piece::place inside
\* self.place(p), and on the closing debug_assert.
placeable_at(self, piece, p, debug) ==
    IF debug /\ p.row * 10 + p.col < 0 THEN PiecePanic
    ELSE IF ~can_place(p, self.board) THEN NoPiece
    ELSE IF debug /\ collides_in(p, self.board) THEN PiecePanic
    ELSE IF debug /\ ~contains(BrokenBoard_place(self, p).pieces, piece) THEN PiecePanic
    ELSE SomePiece(p)

\* placeable that skips the test of the rows that split the piece.
BrokenBoard_placeable_unsplit(self, piece, debug) ==
    IF contains(self.pieces, piece) THEN NoPiece
    ELSE IF debug /\ (self.cleared_rows \cap piece.rows) /= {} THEN PiecePanic
    ELSE IF debug /\ (piece.rows = {} \/ 7 \in piece.rows) THEN PiecePanic
    ELSE LET bump_col == trailing_zeros(PIECE_SHAPES[piece.shape + 1][piece.orientation + 1])
             bump_row == count_ones(self.cleared_rows \cap above_bottom_1(piece.rows))
         IN  placeable_at(self, piece,
                          MkPiece(piece.shape, (piece.low_mino % 10) - bump_col,
                                  (piece.low_mino \div 10) + bump_row, piece.orientation),
                          debug)

BrokenBoard_placeable(self, piece, debug) ==
    IF contains(self.pieces, piece) THEN NoPiece
    ELSE IF debug /\ (self.cleared_rows \cap piece.rows) /= {} THEN PiecePanic
    ELSE IF debug /\ (piece.rows = {} \/ 7 \in piece.rows) THEN PiecePanic
    ELSE LET required_clear ==
                 (below_top_1(piece.rows) \cap above_bottom_1(piece.rows)) \ piece.rows
         IN  IF (required_clear \cap self.cleared_rows) /= required_clear THEN NoPiece
             ELSE LET bump_col ==
                          trailing_zeros(PIECE_SHAPES[piece.shape + 1][piece.orientation + 1])
                      bump_row ==
                          count_ones(self.cleared_rows \cap above_bottom_1(piece.rows))
                  IN  placeable_at(self, piece,
                                   MkPiece(piece.shape, (piece.low_mino % 10) - bump_col,
                                           (piece.low_mino \div 10) + bump_row,
                                           piece.orientation),
                                   debug)

(***************************************************************************)
(* brokenboard.rs: encode and decode; a BitVec is a sequence of 0 and 1    *)
(***************************************************************************)
\* view_bits::<Lsb0>()[..n] of a number and of a bit set.
int_bits(v, n) == [i \in 1..n |-> (v \div (2 ^ (i - 1))) % 2]

set_bits(x, n) == [i \in 1..n |-> IF (i - 1) \in x THEN 1 ELSE 0]

\* load_le of a bit slice, as a number and as a bit set.
RECURSIVE load_int(_)
load_int(bits) ==
    IF bits = <<>> THEN 0 ELSE bits[1] + 2 * load_int(Tail(bits))

load_set(bits) == {i - 1 : i \in {j \in 1..Len(bits) : bits[j] = 1}}

encode_piece(piece) ==
    int_bits(piece.low_mino, 6) \o int_bits(piece.shape, 3)
    \o int_bits(piece.orientation, 2) \o set_bits(piece.rows, 4)

RECURSIVE encode_pieces(_, _)
encode_pieces(pieces, k) ==
    IF k > Len(pieces) THEN <<>>
    ELSE encode_piece(pieces[k]) \o encode_pieces(pieces, k + 1)

BrokenBoard_encode(self) ==
    int_bits(4, 8) \o set_bits(self.board, 32) \o set_bits(Shr(self.board, 32), 8)
    \o set_bits(self.cleared_rows, 4) \o encode_pieces(self.pieces, 1)

\* The while loop of decode: the pieces, unless a return None is reached.
RECURSIVE decode_pieces(_, _)
decode_pieces(encoded, pieces) ==
    IF Len(encoded) = 0 THEN [none |-> FALSE, pieces |-> pieces]
    ELSE IF Len(encoded) < 15 THEN [none |-> TRUE, pieces |-> <<>>]
    ELSE IF load_int(SubSeq(encoded, 7, 9)) > 6 THEN [none |-> TRUE, pieces |-> <<>>]
    ELSE decode_pieces(SubSeq(encoded, 16, Len(encoded)),
             Append(pieces, [low_mino |-> load_int(SubSeq(encoded, 1, 6)),
                             shape |-> load_int(SubSeq(encoded, 7, 9)),
                             orientation |-> load_int(SubSeq(encoded, 10, 11)),
                             rows |-> load_set(SubSeq(encoded, 12, 15))]))

None == [result |-> "None", value |-> BrokenBoard_empty]

Panic == [result |-> "panic", value |-> BrokenBoard_empty]

Some(v) == [result |-> "Some", value |-> v]

\* BrokenBoard::decode: None, Some(board), or a panic.
BrokenBoard_decode(encoded) ==
    IF Len(encoded) < 52 \/ Len(encoded) > 202 THEN None
    ELSE IF load_int(SubSeq(encoded, 1, 8)) /= 4 THEN None
    ELSE LET parsed == decode_pieces(SubSeq(encoded, 53, Len(encoded)), <<>>)
             new == [board |-> load_set(SubSeq(encoded, 9, 48)),
                     cleared_rows |-> load_set(SubSeq(encoded, 49, 52)),
                     pieces |-> parsed.pieces]
         IN  IF parsed.none THEN None
             ELSE CASE is_valid(new) = "panic" -> Panic
                    [] is_valid(new) = "true" -> Some(new)
                    [] OTHER -> None

(***************************************************************************)
(* The placement engine driven as legal-boards/boardgraph.rs drives it:    *)
(* search a shape on the current board, optionally canonicalise, iterate,  *)
(* and move on to one of the boards the iteration yielded.  The boards     *)
(* visited are those of recorded perfect-clear games, so each of them is   *)
(* a board the legal-board precomputation produces.                        *)
(***************************************************************************)
NumGames == 9

\* Perfect-clear games from the empty board: <<shape, orientation, col, row>>.
Games ==
    << << <<3,0,6,0>>, <<5,3,4,0>>, <<2,2,0,0>>, <<3,0,0,2>>, <<1,1,8,0>>, <<5,2,2,1>>, <<3,0,6,2>>, <<2,3,8,1>>, <<4,0,1,2>>, <<4,0,3,2>> >>,
       << <<1,2,5,0>>, <<5,2,1,0>>, <<5,3,3,1>>, <<3,0,8,0>>, <<1,0,5,2>>, <<3,0,8,2>>, <<2,2,0,1>>, <<6,0,2,2>>, <<3,0,0,2>>, <<4,0,5,2>> >>,
       << <<5,1,1,0>>, <<5,0,4,0>>, <<1,2,4,1>>, <<5,1,7,0>>, <<0,1,0,0>>, <<2,3,8,0>>, <<2,3,2,0>>, <<2,2,4,2>>, <<5,2,1,2>>, <<5,2,7,2>> >>,
       << <<2,2,2,0>>, <<3,0,0,0>>, <<5,2,3,2>>, <<4,1,7,0>>, <<0,0,4,0>>, <<2,3,8,0>>, <<2,2,0,2>>, <<0,0,6,3>>, <<3,0,5,2>>, <<1,2,1,2>> >>,
       << <<5,2,3,0>>, <<4,0,7,0>>, <<3,0,0,0>>, <<3,0,6,1>>, <<5,1,2,1>>, <<5,3,8,1>>, <<5,3,4,1>>, <<3,0,0,2>>, <<4,0,2,2>>, <<2,2,6,2>> >>,
       << <<2,2,2,0>>, <<2,2,4,2>>, <<2,3,8,0>>, <<2,3,0,0>>, <<6,0,6,0>>, <<3,0,2,2>>, <<2,2,5,1>>, <<5,2,7,2>>, <<1,1,0,1>>, <<0,0,3,3>> >>,
       << <<0,0,1,0>>, <<5,3,8,0>>, <<5,0,3,1>>, <<2,2,0,0>>, <<6,0,4,2>>, <<3,0,2,2>>, <<3,0,0,2>>, <<0,0,6,3>>, <<4,0,6,2>>, <<0,0,5,3>> >>,
       << <<1,2,0,0>>, <<0,0,5,0>>, <<3,0,3,0>>, <<6,1,6,1>>, <<1,2,3,1>>, <<1,0,0,2>>, <<4,0,7,1>>, <<0,0,3,3>>, <<2,3,8,1>>, <<4,0,0,2>> >>,
       << <<5,0,4,0>>, <<6,0,1,0>>, <<3,0,6,1>>, <<5,1,4,1>>, <<2,2,0,1>>, <<2,3,8,0>>, <<2,3,2,1>>, <<1,1,8,1>>, <<1,2,5,2>>, <<3,0,0,2>> >>,
       << <<1,3,3,0>>, <<4,1,5,0>>, <<0,0,1,3>>, <<6,0,6,1>>, <<2,0,7,0>>, <<3,0,8,2>>, <<0,0,0,1>>, <<0,0,0,2>>, <<2,2,5,2>>, <<1,0,0,2>> >> >>

GameIds == 1..Min(NumGames, Len(Games))

VARIABLES
    game,        \* the game being replayed
    turn,        \* pieces of the game placed so far
    board,       \* Board: the current board
    shape,       \* Shape of the current search
    physics,     \* Physics of the current search
    placements,  \* Placements: the result of the search
    canonical,   \* whether canonical() has been applied to placements
    yielded,     \* the items the iteration of placements yielded, in order
    reference,   \* the items the iteration of PiecePlacer yielded, in order
    pc,          \* "idle" | "placed" | "collected" | "compared"
    bbA,         \* BrokenBoard built by a first sequence of place calls
    layoutA,     \* the filled cells of the first run in the original four-row layout
    seqA,        \* the pieces of the first run: <<shape, cells in the original layout>>
    clean,       \* no place call of the first run overlapped a filled cell
    bbB,         \* BrokenBoard built by a second sequence of place calls
    layoutB,     \* as layoutA, for the second run
    seqB,        \* as seqA, for the second run
    bv,          \* the BitVec handed to decode
    decoded,     \* what decode returned: None, Some(board), or a panic
    bpc,         \* "off" | "A" | "B" | "encoded" | "decoded" | "panicked"
    legal_boards,   \* compute: the set of legal boards; empty for no filter
    start,          \* compute: the BrokenBoard to start from
    bags,           \* compute: the queue, a sequence of Bag
    can_hold,       \* compute: whether hold may be used
    solver_physics, \* compute: the Physics
    place_last,     \* compute: whether the held piece is placed at the end
    stage,          \* scan, place: index of the next (bag, i) of the stage loop
    scanned,        \* scan: stages pushed so far
    scan_prev,      \* scan: prev, a map Board -> (queues, preds)
    culled,         \* the set cull returned
    place_prev,     \* place: prev, a map BrokenBoard -> queues
    solutions,      \* what compute returned
    spc,            \* "off" | "start" | "scan" | "scanned" | "cull" | "place" | "placed" | "drain" | "done"
    todo,           \* the entries of the hash map being iterated that are still to come
    next_map,       \* scan, place: next, the hash map being filled
    drained,        \* compute: the Vec collected from placed.drain(), before the sort
    stages,         \* boardgraph: the stages, each a map Board -> preds in push order
    iter,           \* boardgraph: the stage being built
    unvisited,      \* boardgraph: the entries an iteration has still to yield
    searched,       \* boardgraph: per stage and entry, the new boards that the searches
                    \* of the closure find from it, in order
    job,            \* boardgraph: per worker, the board in hand and its new boards to come
    work,           \* boardgraph: the work set of the backward sweep
    sweep,          \* boardgraph: the index of the stage the sweep reads next
    all_boards,     \* boardgraph: the Vec of boards to return
    gpc,            \* "off" | "build" | "sweep" | "sort" | "done" | "panicked"
    cells,          \* Counter: the value of each AtomicU64
    visible,        \* Counter: per cell, the value a load by the reporting thread returns
    total,          \* boardgraph: prev_stage.len(), the number of increments to come
    load_idx,       \* Counter::get: the cell the sum reads next
    sum,            \* Counter::get: the sum so far
    counted,        \* boardgraph: what the last call of get returned
    mpc,            \* the reporting thread: "off" | "get" | "check" | "sleep" | "returned"
    call,           \* the function called last, "off" when none of them runs
    input,          \* its argument
    output,         \* what it returned
    pm,             \* Placements::place: the PlacementMachine
    flood,          \* flood_fill: self
    visiting,       \* the orientation of the step of the loop body that runs next
    ppc,            \* "off" | "while" | "step" | "flood_fill" | "kicks" | "done"
    held,           \* the shard mutexes that are locked: <<worker, shard>>
    wpc,            \* each worker's place in the closure of for_each
    ticks           \* how often counter.increment() ran for each board of prev_stage

placementVars == <<game, turn, board, shape, physics, placements, canonical, yielded, reference, pc>>

brokenVars == <<bbA, layoutA, seqA, clean, bbB, layoutB, seqB, bv, decoded, bpc>>

hashVars == <<todo, next_map, drained>>

solverVars == <<legal_boards, start, bags, can_hold, solver_physics, place_last, stage,
                scanned, scan_prev, culled, place_prev, solutions, spc, hashVars>>

graphVars == <<stages, iter, unvisited, searched, job, work, sweep, all_boards, gpc>>

counterVars == <<cells, visible, total, load_idx, sum, counted, mpc>>

machineVars == <<pm, flood, visiting, ppc>>

stageVars == <<held, wpc, ticks>>

unitVars == <<call, input, output, machineVars, stageVars>>

otherVars == <<graphVars, counterVars, unitVars>>

vars == <<placementVars, brokenVars, solverVars, otherVars>>

NoPlacements(b, s) == [shape |-> s, board |-> b, positions |-> [o \in Orientations |-> {}]]

PlacementsOff ==
    /\ game = 1
    /\ turn = 0
    /\ board = {}
    /\ shape = I
    /\ physics = "SRS"
    /\ placements = NoPlacements({}, I)
    /\ canonical = FALSE
    /\ yielded = <<>>
    /\ reference = <<>>
    /\ pc = "off"

BrokenOff ==
    /\ bbA = BrokenBoard_empty
    /\ layoutA = {}
    /\ seqA = <<>>
    /\ clean = TRUE
    /\ bbB = BrokenBoard_empty
    /\ layoutB = {}
    /\ seqB = <<>>
    /\ bv = <<>>
    /\ decoded = None
    /\ bpc = "off"

SolverOff ==
    /\ legal_boards = {}
    /\ start = BrokenBoard_empty
    /\ bags = <<>>
    /\ can_hold = FALSE
    /\ solver_physics = "SRS"
    /\ place_last = FALSE
    /\ stage = 1
    /\ scanned = <<>>
    /\ scan_prev = <<>>
    /\ culled = {}
    /\ place_prev = <<>>
    /\ solutions = <<>>
    /\ spc = "off"
    /\ todo = {}
    /\ next_map = <<>>
    /\ drained = <<>>

GraphOff ==
    /\ stages = <<>>
    /\ iter = 0
    /\ unvisited = {}
    /\ searched = <<>>
    /\ job = <<>>
    /\ work = {}
    /\ sweep = 0
    /\ all_boards = <<>>
    /\ gpc = "off"

CounterOff ==
    /\ cells = <<>>
    /\ visible = <<>>
    /\ total = 0
    /\ load_idx = 0
    /\ sum = 0
    /\ counted = 0
    /\ mpc = "off"

StageOff ==
    /\ held = {}
    /\ wpc = <<>>
    /\ ticks = <<>>

MachineOff ==
    /\ pm = <<>>
    /\ flood = {}
    /\ visiting = 0
    /\ ppc = "off"

UnitOff ==
    /\ call = "off"
    /\ input = <<>>
    /\ output = <<>>
    /\ MachineOff
    /\ StageOff

OtherOff == GraphOff /\ CounterOff /\ UnitOff

Init ==
    /\ OtherOff
    /\ BrokenOff
    /\ SolverOff
    /\ game \in GameIds
    /\ turn = 0
    /\ board = {}
    /\ shape = I
    /\ physics = "SRS"
    /\ placements = NoPlacements({}, I)
    /\ canonical = FALSE
    /\ yielded = <<>>
    /\ reference = <<>>
    /\ pc = "idle"

\* Placements::place(board, shape, physics)
Search(s, ph) ==
    /\ pc = "idle"
    /\ shape' = s
    /\ physics' = ph
    /\ placements' = Placements_place(board, s, ph)
    /\ pc' = "placed"
    /\ UNCHANGED <<game, turn, board, canonical, yielded, reference>>
    /\ UNCHANGED <<brokenVars, solverVars, otherVars>>

\* .canonical()
Canonicalise ==
    /\ pc = "placed"
    /\ ~canonical
    /\ placements' = Placements_canonical(placements)
    /\ canonical' = TRUE
    /\ UNCHANGED <<game, turn, board, shape, physics, yielded, reference, pc>>
    /\ UNCHANGED <<brokenVars, solverVars, otherVars>>

\* for (piece, new_board) in placements
Iterate ==
    /\ pc = "placed"
    /\ yielded' = Placements_collect(placements)
    /\ pc' = "collected"
    /\ UNCHANGED <<game, turn, board, shape, physics, placements, canonical, reference>>
    /\ UNCHANGED <<brokenVars, solverVars, otherVars>>

\* for (piece, new_board) in PiecePlacer::new(board, shape)
RunPiecePlacer ==
    /\ pc = "collected"
    /\ physics = "SRS"
    /\ ~canonical
    /\ reference' = PiecePlacer_collect(PiecePlacer_new(board, shape))
    /\ pc' = "compared"
    /\ UNCHANGED <<game, turn, board, shape, physics, placements, canonical, yielded>>
    /\ UNCHANGED <<brokenVars, solverVars, otherVars>>

\* The game's next piece, as the iteration yielded it; the new board is kept
\* only if it passes the two pruning predicates, as in boardgraph.rs.
Put ==
    /\ pc = "collected"
    /\ canonical
    /\ turn < Len(Games[game])
    /\ \E k \in 1..Len(yielded) :
          LET piece == yielded[k][1]
              new_board == yielded[k][2]
              want == Games[game][turn + 1]
          IN  /\ <<piece.shape, piece.orientation, piece.col, piece.row>> = want
              /\ ~has_isolated_cell(new_board)
              /\ ~has_imbalanced_split(new_board)
              /\ board' = new_board
    /\ turn' = turn + 1
    /\ shape' = I
    /\ physics' = "SRS"
    /\ placements' = NoPlacements({}, I)
    /\ canonical' = FALSE
    /\ yielded' = <<>>
    /\ reference' = <<>>
    /\ pc' = "idle"
    /\ UNCHANGED game
    /\ UNCHANGED <<brokenVars, solverVars, otherVars>>

Next ==
    \/ \E s \in Shapes, ph \in PhysicsSet : Search(s, ph)
    \/ Canonicalise
    \/ Iterate
    \/ RunPiecePlacer
    \/ Put

Spec == Init /\ [][Next]_vars

(***************************************************************************)
(* Properties of the placement engine                                      *)
(***************************************************************************)
Items(seq) == {seq[k] : k \in 1..Len(seq)}

\* The pieces p with placements.contains(p), 0 <= col <= 9, 0 <= row <= 5.
Contained(pl) ==
    {p \in {MkPiece(pl.shape, c, r, o) : c \in 0..9, r \in 0..5, o \in Orientations} :
        Placements_contains(pl, p)}

Enumerate(b, s, ph) == Items(Placements_collect(Placements_place(b, s, ph)))

\* C1: every piece contained in Placements::place(board, shape, physics)
\* satisfies can_place on that board and covers no filled cell of it.
C1_PlacedPiecesFit ==
    (pc = "placed" /\ ~canonical) =>
        \A p \in Contained(placements) :
            /\ can_place(p, board)
            /\ (as_board(p) \cap board) = {}

C1_Witness ==
    /\ pc = "placed"
    /\ ~canonical
    /\ board /= {}
    /\ physics = "Tetrio"
    /\ Cardinality(Contained(placements)) >= 8

\* C2: on a legal board, the (piece, board) pairs the vectorized SRS search
\* yields are exactly the pairs the PiecePlacer reference search yields.
C2_VectorMatchesPiecePlacer ==
    pc = "compared" => Items(yielded) = Items(reference)

C2_Witness ==
    /\ pc = "compared"
    /\ board /= {}
    /\ Len(reference) >= 8
    /\ reference /= yielded
    /\ \E k \in 1..Len(reference) : reference[k][1].row > 0

\* C3: every (piece, board) pair of the SRS search is a pair of the Jstris
\* search on the same board and shape.
C3_SrsWithinJstris ==
    (pc = "collected" /\ physics = "SRS" /\ ~canonical) =>
        Items(yielded) \subseteq Enumerate(board, shape, "Jstris")

C3_Witness ==
    /\ pc = "collected"
    /\ physics = "SRS"
    /\ ~canonical
    /\ yielded /= <<>>
    /\ Items(yielded) /= Enumerate(board, shape, "Jstris")

\* C4 as stated: every (piece, board) pair of the SRS search is a pair of the
\* Tetrio search on the same board and shape.
C4_SrsWithinTetrio ==
    (pc = "collected" /\ physics = "SRS" /\ ~canonical) =>
        Items(yielded) \subseteq Enumerate(board, shape, "Tetrio")

\* C4, amended: for every shape other than I the SRS pairs are Tetrio pairs,
\* and for every shape the SRS pairs are pairs of the Jstris or of the Tetrio
\* search, so the union Jstris | Tetrio covers all three physics.
C4_SrsWithinTetrioExceptI ==
    (pc = "collected" /\ physics = "SRS" /\ ~canonical) =>
        /\ shape /= I => Items(yielded) \subseteq Enumerate(board, shape, "Tetrio")
        /\ Items(yielded) \subseteq
               (Enumerate(board, shape, "Jstris") \cup Enumerate(board, shape, "Tetrio"))

C4_Witness ==
    /\ pc = "collected"
    /\ physics = "SRS"
    /\ ~canonical
    /\ shape = I
    /\ ~(Items(yielded) \subseteq Enumerate(board, shape, "Tetrio"))

\* C5: iterating the canonicalised placements yields no two pieces covering
\* the same cells, and every piece of the un-canonicalised placements covers
\* the same cells as some yielded piece.
C5_CanonicalYieldsEachOnce ==
    (pc = "collected" /\ canonical) =>
        /\ \A i, j \in 1..Len(yielded) :
              as_bits(yielded[i][1]) = as_bits(yielded[j][1]) => i = j
        /\ \A p \in Contained(Placements_place(board, shape, physics)) :
              \E k \in 1..Len(yielded) : as_bits(yielded[k][1]) = as_bits(p)

C5_Witness ==
    /\ pc = "collected"
    /\ canonical
    /\ shape = S
    /\ board /= {}
    /\ Len(yielded) >= 2
    /\ \E p \in Contained(Placements_place(board, shape, physics)) :
          p.orientation = West

(***************************************************************************)
(* BrokenBoard driven by its callers: boards are built from a garbage      *)
(* board by place calls, encoded, and decoded again; a second sequence of  *)
(* place calls puts the pieces of the first on the same cells in another   *)
(* order.  decode is also handed bit vectors that no encode produced.      *)
(***************************************************************************)
NumGarbages == 3

\* decode is handed changed encodings of boards of at most this many pieces.
MaxTamperedPieces == 1

\* A board from the filled columns of its rows 0, 1, 2, 3.
OfRows(r) == UNION {{c + 10 * (k - 1) : c \in r[k]} : k \in 1..4}

\* Garbage boards in the original layout; a full row is a cleared line.
Garbages ==
    << OfRows(<<4..9, 2..9, 2..9, 0..9>>),
       OfRows(<<4..9, 0..9, 2..9, 2..9>>),
       OfRows(<<3..9, 3..9, 3..9, 3..9>>),
       OfRows(<<0..5, 0..7, 0..9, 0..7>>),
       OfRows(<<2..9, 0..1 \cup 4..9, 2..9, 2..9>>) >>

GarbageIds == 1..Min(NumGarbages, Len(Garbages))

AllPieces == {MkPiece(s, c, r, o) : s \in Shapes, c \in 0..9, r \in 0..3, o \in Orientations}

\* The rows of the original layout that are not full, lowest first.
OpenRows(layout) ==
    LET open == {r \in 0..3 : (layout \cap Shl(FULL_10, 10 * r)) /= Shl(FULL_10, 10 * r)}
    IN  [k \in 1..Cardinality(open) |->
            CHOOSE r \in open : Cardinality({q \in open : q < r}) = k - 1]

\* The cells of the original layout that a piece of the current board covers:
\* the cleared lines lie at the bottom of the current board, the open rows
\* above them in their order.
OrigCells(layout, piece) ==
    LET open == OpenRows(layout)
        cleared_count == 4 - Len(open)
    IN  {(b % 10) + 10 * open[(b \div 10) - cleared_count + 1] : b \in as_bits(piece)}

Overlaps(piece, b) == (as_bits(piece) \cap b) /= {}

InitBB ==
    /\ OtherOff
    /\ PlacementsOff
    /\ SolverOff
    /\ \E g \in GarbageIds :
          /\ bbA = from_garbage(Garbages[g])
          /\ layoutA = Garbages[g]
          /\ bbB = from_garbage(Garbages[g])
          /\ layoutB = Garbages[g]
    /\ seqA = <<>>
    /\ seqB = <<>>
    /\ clean = TRUE
    /\ bv = <<>>
    /\ decoded = None
    /\ bpc = "A"

\* bbA.place(piece) with a piece that meets the requirements of Piece::place
PlaceA(piece) ==
    /\ bpc = "A"
    /\ clean
    /\ can_place(piece, bbA.board)
    /\ ~Overlaps(piece, bbA.board)
    /\ bbA' = BrokenBoard_place(bbA, piece)
    /\ layoutA' = layoutA \cup OrigCells(layoutA, piece)
    /\ seqA' = Append(seqA, <<piece.shape, OrigCells(layoutA, piece)>>)
    /\ UNCHANGED <<clean, bbB, layoutB, seqB, bv, decoded, bpc>>
    /\ UNCHANGED <<placementVars, solverVars, otherVars>>

\* bbA.place(piece) with a piece that satisfies can_place but overlaps filled
\* cells: the debug assertion of Piece::place panics in a debug build, and a
\* release build goes on.  It is the only call of its sequence.
PlaceOverlapping(piece) ==
    /\ bpc = "A"
    /\ clean
    /\ seqA = <<>>
    /\ can_place(piece, bbA.board)
    /\ Overlaps(piece, bbA.board)
    /\ \/ /\ bpc' = "panicked"
          /\ UNCHANGED <<bbA, clean>>
       \/ /\ bbA' = BrokenBoard_place(bbA, piece)
          /\ clean' = FALSE
          /\ UNCHANGED bpc
    /\ UNCHANGED <<layoutA, seqA, bbB, layoutB, seqB, bv, decoded>>
    /\ UNCHANGED <<placementVars, solverVars, otherVars>>

\* The first sequence is over; a second one starts from the same garbage.
StartB ==
    /\ bpc = "A"
    /\ clean
    /\ Len(seqA) >= 2
    /\ bpc' = "B"
    /\ UNCHANGED <<bbA, layoutA, seqA, clean, bbB, layoutB, seqB, bv, decoded>>
    /\ UNCHANGED <<placementVars, solverVars, otherVars>>

\* bbB.place(piece) with a piece of the first sequence not yet placed
PlaceB(piece) ==
    /\ bpc = "B"
    /\ can_place(piece, bbB.board)
    /\ ~Overlaps(piece, bbB.board)
    /\ LET placed == <<piece.shape, OrigCells(layoutB, piece)>>
       IN  /\ \E k \in 1..Len(seqA) : seqA[k] = placed
           /\ \A k \in 1..Len(seqB) : seqB[k] /= placed
           /\ seqB' = Append(seqB, placed)
    /\ bbB' = BrokenBoard_place(bbB, piece)
    /\ layoutB' = layoutB \cup OrigCells(layoutB, piece)
    /\ UNCHANGED <<bbA, layoutA, seqA, clean, bv, decoded, bpc>>
    /\ UNCHANGED <<placementVars, solverVars, otherVars>>

\* bbA.encode()
Encode ==
    /\ bpc = "A"
    /\ bv' = BrokenBoard_encode(bbA)
    /\ bpc' = "encoded"
    /\ UNCHANGED <<bbA, layoutA, seqA, clean, bbB, layoutB, seqB, decoded>>
    /\ UNCHANGED <<placementVars, solverVars, otherVars>>

Untouched == bv = BrokenBoard_encode(bbA)

\* The bit vector is changed before it is decoded: one bit is flipped,
FlipBit(i) ==
    /\ bpc = "encoded"
    /\ clean
    /\ Untouched
    /\ Len(bbA.pieces) <= MaxTamperedPieces
    /\ i \in 1..Len(bv)
    /\ bv' = [bv EXCEPT ![i] = 1 - @]
    /\ UNCHANGED <<bbA, layoutA, seqA, clean, bbB, layoutB, seqB, decoded, bpc>>
    /\ UNCHANGED <<placementVars, solverVars, otherVars>>

\* the last n bits are lost,
Truncate(n) ==
    /\ bpc = "encoded"
    /\ clean
    /\ Untouched
    /\ Len(bbA.pieces) <= MaxTamperedPieces
    /\ bv' = SubSeq(bv, 1, Len(bv) - n)
    /\ UNCHANGED <<bbA, layoutA, seqA, clean, bbB, layoutB, seqB, decoded, bpc>>
    /\ UNCHANGED <<placementVars, solverVars, otherVars>>

\* or whole copies of its last 15 bits are appended.
Extend(n) ==
    /\ bpc = "encoded"
    /\ clean
    /\ Untouched
    /\ Len(bbA.pieces) <= MaxTamperedPieces
    /\ bbA.pieces /= <<>>
    /\ LET block == SubSeq(bv, Len(bv) - 14, Len(bv))
           RECURSIVE copies(_)
           copies(k) == IF k = 0 THEN <<>> ELSE block \o copies(k - 1)
       IN  bv' = bv \o copies(n)
    /\ UNCHANGED <<bbA, layoutA, seqA, clean, bbB, layoutB, seqB, decoded, bpc>>
    /\ UNCHANGED <<placementVars, solverVars, otherVars>>

\* BrokenBoard::decode(&bv)
Decode ==
    /\ bpc = "encoded"
    /\ decoded' = BrokenBoard_decode(bv)
    /\ bpc' = "decoded"
    /\ UNCHANGED <<bbA, layoutA, seqA, clean, bbB, layoutB, seqB, bv>>
    /\ UNCHANGED <<placementVars, solverVars, otherVars>>

NextBB ==
    \/ \E piece \in AllPieces : PlaceA(piece)
    \/ \E piece \in AllPieces : PlaceOverlapping(piece)
    \/ StartB
    \/ \E piece \in AllPieces : PlaceB(piece)
    \/ Encode
    \/ \E i \in 1..202 : FlipBit(i)
    \/ \E n \in {1, 15, 45} : Truncate(n)
    \/ \E n \in {1, 10} : Extend(n)
    \/ Decode

SpecBB == InitBB /\ [][NextBB]_vars

(***************************************************************************)
(* Properties of BrokenBoard                                               *)
(***************************************************************************)
\* C6: two sequences of place calls from the same garbage board that put
\* the same shapes on the same cells of the original layout give equal
\* BrokenBoards (board, cleared_rows and pieces).
C6_OrderIndependent ==
    (bpc = "B" /\ Items(seqB) = Items(seqA)) => bbB = bbA

C6_Witness ==
    /\ bpc = "B"
    /\ Items(seqB) = Items(seqA)
    /\ seqB /= seqA
    /\ Cardinality(bbB.cleared_rows) = 4
    /\ \E k \in 1..Len(bbB.pieces) : bbB.pieces[k].rows \in {{0, 2}, {1, 3}, {0, 3}, {0, 1, 3}, {0, 2, 3}}

\* C7 as stated: every board built from from_garbage by place calls whose
\* pieces satisfy can_place is valid and decodes from its encoding.
C7_RoundTrip ==
    /\ bpc \in {"A", "B", "encoded", "decoded"} => is_valid(bbA) = "true"
    /\ (bpc = "decoded" /\ Untouched) => decoded = Some(bbA)

\* C7, amended: every board built from from_garbage by place calls whose
\* pieces satisfy can_place and overlap no filled cell is valid and decodes
\* from its encoding.
C7_RoundTripNoOverlap ==
    clean =>
        /\ bpc \in {"A", "B", "encoded", "decoded"} =>
              is_valid(bbA) = "true" /\ is_valid(bbB) = "true"
        /\ (bpc = "decoded" /\ Untouched) => decoded = Some(bbA)

C7_Witness ==
    /\ bpc = "decoded"
    /\ clean
    /\ Untouched
    /\ decoded = Some(bbA)
    /\ Len(bbA.pieces) >= 2
    /\ \E k \in 1..Len(bbA.pieces) : bbA.pieces[k].rows \in {{0, 2}, {1, 3}, {0, 3}, {0, 1, 3}, {0, 2, 3}}

\* The bit vectors for which decode is said to return None.
Malformed(encoded) ==
    \/ Len(encoded) < 52
    \/ Len(encoded) > 202
    \/ load_int(SubSeq(encoded, 1, 8)) /= 4
    \/ (Len(encoded) - 52) % 15 /= 0
    \/ \E k \in 0..((Len(encoded) - 52) \div 15 - 1) :
          load_int(SubSeq(encoded, 52 + 15 * k + 7, 52 + 15 * k + 9)) = 7

\* C8: decode never panics, and returns None for a wrong magic number, a
\* length outside 52..=202, piece bits that are not whole 15-bit blocks, or
\* a shape field of 7.
C8_DecodeNeverPanics ==
    bpc = "decoded" =>
        /\ decoded.result /= "panic"
        /\ Malformed(bv) => decoded = None

(***************************************************************************)
(* gomen/queue.rs: Bag and QueueState.  A u16 is the set of its set bits:  *)
(* bits 0..12 are the pieces left in the bag, bits 13..15 the held shape.  *)
(***************************************************************************)
\* The bits of a small number.
u16(v) == {i \in 0..15 : (v \div (2 ^ i)) % 2 = 1}

\* Option<QueueState>::None
NoState == [result |-> "None", value |-> {}]

\* Bag::new(shapes, count); the callers keep count <= shapes.len() <= 13.
Bag_new(shapes, count) ==
    [count |-> count,
     full |-> 0..(Len(shapes) - 1),
     masks |-> [s \in Shapes |-> {k - 1 : k \in {j \in 1..Len(shapes) : shapes[j] = s}}]]

\* QueueState::hold: the held shape, 7 for None.
QueueState_hold(self) == value(Shr(self, 13))

QueueState_next(self, bag) == (self \cap 13..15) \cup bag.full

\* take with every copy of the shape leaving the queue at once.
QueueState_take_all(self, bag, s) ==
    IF self \cap bag.masks[s] = {} THEN NoState
    ELSE Some(Xor(self, self \cap bag.masks[s]))

\* self.0 ^ shape_field ^ new_shape_field
take_field(self, shape_field) ==
    Xor(Xor(self, shape_field), shape_field \cap u16(value(shape_field) - 1))

QueueState_take(self, bag, s) ==
    IF self \cap bag.masks[s] = {} THEN NoState
    ELSE Some(take_field(self, self \cap bag.masks[s]))

QueueState_swap(self, bag, s) ==
    LET new == QueueState_take(self, bag, s)
    IN  IF new.result = "None" THEN NoState
        ELSE Some((new.value \cap 0..12) \cup Shl(u16(s), 13))

\* The states a filter_map over Shape::ALL of swap keeps.
swaps(queue, bag) ==
    {QueueState_swap(queue, bag, sw).value :
        sw \in {x \in Shapes : QueueState_swap(queue, bag, x).result = "Some"}}

\* A SmallVec of QueueState that is pushed to only after a contains check
\* is the set of its elements.
Bag_init_hold(self) == swaps(self.full, self)

Bag_take(self, queues, s, is_first, hold_allowed) ==
    UNION {LET queue == IF is_first THEN QueueState_next(q, self) ELSE q
           IN  IF QueueState_hold(queue) = s THEN swaps(queue, self)
               ELSE IF hold_allowed
                    THEN LET new == QueueState_take(queue, self, s)
                         IN  IF new.result = "Some" THEN {new.value} ELSE {}
                    ELSE {}
           : q \in queues}

(***************************************************************************)
(* gomen/solver.rs.  A ScanStage is a function from Board to a record of   *)
(* queues and preds; both lists are pushed to only after a contains check  *)
(* and are read only through contains and any, so they are sets.           *)
(***************************************************************************)
\* bags.iter().flat_map(|b| (0..b.count).map(move |i| (b, i))): <<bag index, i>>
RECURSIVE flat_map(_, _)
flat_map(bs, k) ==
    IF k > Len(bs) THEN <<>>
    ELSE [j \in 1..bs[k].count |-> <<k, j - 1>>] \o flat_map(bs, k + 1)

\* .skip(1)
stage_loop(bs) == LET all == flat_map(bs, 1) IN IF all = <<>> THEN <<>> ELSE Tail(all)

\* for (piece, new_board) in Placements::place(board, shape, physics).canonical()
canonical_placements(b, s, ph) ==
    Items(Placements_collect(Placements_canonical(Placements_place(b, s, ph))))

\* !(!legal_boards.is_empty() && !legal_boards.contains(&new_board))
admitted(legal, new_board) == legal = {} \/ new_board \in legal

\* old_queues.iter().any(|queue| queue.hold() == Some(shape)), with any shape passing
holds_any(old_queues, s) == TRUE

\* old_queues.iter().any(|queue| queue.hold() == Some(shape))
holds(old_queues, s) == \E queue \in old_queues : QueueState_hold(queue) = s

\* next.entry(new_board).or_default() and the pushes, for all that was found
scan_entries(found) ==
    [new_board \in {f.new : f \in found} |->
        [queues |-> UNION {f.queues : f \in {x \in found : x.new = new_board}},
         preds |-> {f.old : f \in {x \in found : x.new = new_board}}]]

\* One pass of the stage loop of scan: next from prev.
scan_stage(prev, bag, i, hold_allowed, legal, ph) ==
    scan_entries(
        UNION {LET new_queues == Bag_take(bag, prev[e[1]].queues, e[2], i = 0, hold_allowed)
               IN  IF new_queues = {} THEN {}
                   ELSE {[old |-> e[1], new |-> it[2], queues |-> new_queues] :
                            it \in {x \in canonical_placements(e[1], e[2], ph) :
                                        admitted(legal, x[2])}}
               : e \in (DOMAIN prev) \X Shapes})

\* The place_last block of scan: the held piece is placed; no queues are kept.
scan_last(prev, legal, ph) ==
    scan_entries(
        UNION {IF holds(prev[e[1]].queues, e[2])
               THEN {[old |-> e[1], new |-> it[2], queues |-> {}] :
                        it \in {x \in canonical_placements(e[1], e[2], ph) :
                                    admitted(legal, x[2])}}
               ELSE {}
               : e \in (DOMAIN prev) \X Shapes})

\* The preds of the boards of a stage that are in the culled set.  The preds
\* of a stage are boards of the stage before it, with four cells fewer, so
\* extending the set while the stage is walked does not change the checks.
preds_of_culled(stg, set) == UNION {stg[b].preds : b \in (DOMAIN stg) \cap set}

\* The loop of cull over the stages before the final one, last first.
RECURSIVE cull_earlier(_, _, _)
cull_earlier(stgs, k, set) ==
    IF k = 0 THEN set
    ELSE cull_earlier(stgs, k - 1, set \cup preds_of_culled(stgs[k], set))

\* cull that keeps the final stage and its preds only.
cull_final_only(stgs) ==
    IF stgs = <<>> THEN {}
    ELSE LET final_stage == stgs[Len(stgs)]
         IN  (DOMAIN final_stage) \cup UNION {final_stage[b].preds : b \in DOMAIN final_stage}

cull(stgs) ==
    IF stgs = <<>> THEN {}
    ELSE LET final_stage == stgs[Len(stgs)]
             first == (DOMAIN final_stage) \cup
                      UNION {final_stage[b].preds : b \in DOMAIN final_stage}
         IN  cull_earlier(stgs, Len(stgs) - 1, first)

\* next.entry(old_board.place(piece)).or_default() and the pushes
place_entries(found) ==
    [new_board \in {f.new : f \in found} |->
        UNION {f.queues : f \in {x \in found : x.new = new_board}}]

\* One pass of the stage loop of place: a map BrokenBoard -> queues.
place_stage(prev, bag, i, hold_allowed, keep, ph) ==
    place_entries(
        UNION {LET new_queues == Bag_take(bag, prev[e[1]], e[2], i = 0, hold_allowed)
               IN  IF new_queues = {} THEN {}
                   ELSE {[new |-> BrokenBoard_place(e[1], it[1]), queues |-> new_queues] :
                            it \in {x \in canonical_placements(e[1].board, e[2], ph) :
                                        x[2] \in keep}}
               : e \in (DOMAIN prev) \X Shapes})

\* The place_last block of place: next.insert(old_board.place(piece), SmallVec::new())
place_held(prev, keep, ph) ==
    place_entries(
        UNION {IF holds(prev[e[1]], e[2])
               THEN {[new |-> BrokenBoard_place(e[1], it[1]), queues |-> {}] :
                        it \in {x \in canonical_placements(e[1].board, e[2], ph) :
                                    x[2] \in keep}}
               ELSE {}
               : e \in (DOMAIN prev) \X Shapes})

\* Ord on u64: the highest bit in which two words differ decides.
u64_lt(a, b) == a /= b /\ highest_bit(Xor(a, b)) \in b

\* Ord on the pieces lists: lexicographic, a proper prefix first.
pieces_lt(a, b) ==
    \/ \E k \in 1..Min(Len(a), Len(b)) :
          /\ SubSeq(a, 1, k - 1) = SubSeq(b, 1, k - 1)
          /\ BrokenPiece_lt(a[k], b[k])
    \/ /\ Len(a) < Len(b)
       /\ a = SubSeq(b, 1, Len(a))

\* derive(Ord) on BrokenBoard: board, cleared_rows, pieces in turn.
BrokenBoard_lt(a, b) ==
    \/ u64_lt(a.board, b.board)
    \/ /\ a.board = b.board
       /\ \/ value(a.cleared_rows) < value(b.cleared_rows)
          \/ /\ a.cleared_rows = b.cleared_rows
             /\ pieces_lt(a.pieces, b.pieces)

\* placed.drain().map(|(board, _)| board).collect(), then sort_unstable()
sorted_solutions(placed) ==
    [k \in 1..Cardinality(DOMAIN placed) |->
        CHOOSE x \in DOMAIN placed :
            Cardinality({y \in DOMAIN placed : BrokenBoard_lt(y, x)}) = k - 1]

(***************************************************************************)
(* compute, step by step: scan stage by stage, cull, place stage by stage, *)
(* and the sorted list of solutions.                                       *)
(***************************************************************************)
NumProblems == 6

\* The boards that contain a garbage and pass the two pruning predicates of
\* the legal-board precomputation, full lines moved to the bottom.
Pruned(garbage) ==
    {b \in {from_garbage(garbage \cup x).board : x \in SUBSET (BOARD_MASK \ garbage)} :
        ~has_isolated_cell(b) /\ ~has_imbalanced_split(b)}

\* The calls of compute: a garbage, a queue, and a list of legal boards.
Problems ==
    << [garbage |-> FULL_10,
        bags |-> <<Bag_new(<<I>>, 1)>>,
        boards |-> {FULL_10 \cup {13, 14, 15, 16}}],
       [garbage |-> OfRows(<<4..9, 2..9, 2..9, 0..9>>),
        bags |-> <<Bag_new(<<I, O>>, 2)>>,
        boards |-> Pruned(OfRows(<<4..9, 2..9, 2..9, 0..9>>))],
       [garbage |-> OfRows(<<3..9, 3..9, 3..9, 3..9>>),
        bags |-> <<Bag_new(<<I, L, J>>, 3)>>,
        boards |-> {BOARD_MASK}],
       [garbage |-> OfRows(<<4..9, 2..9, 2..9, 0..9>>),
        bags |-> <<Bag_new(<<O, I, T>>, 3)>>,
        boards |-> Pruned(OfRows(<<4..9, 2..9, 2..9, 0..9>>))],
       [garbage |-> OfRows(<<2..9, 0..1 \cup 4..9, 2..9, 2..9>>),
        bags |-> <<Bag_new(<<O>>, 1), Bag_new(<<S, O>>, 1)>>,
        boards |-> {BOARD_MASK}],
       [garbage |-> {},
        bags |-> <<>>,
        boards |-> {{}}],
       [garbage |-> OfRows(<<0..5, 0..7, 0..9, 0..7>>),
        bags |-> <<Bag_new(<<L, J>>, 1), Bag_new(<<L, J>>, 1)>>,
        boards |-> {BOARD_MASK}],
       [garbage |-> OfRows(<<0..9, 0..4, 0..4, 0..4>>),
        bags |-> <<Bag_new(<<I, I>>, 2)>>,
        boards |-> {OfRows(<<0..9, 0..4, 0..4, 0..4>>) \cup x :
                       x \in {15..18, 16..19, 15..18 \cup 25..28,
                              15..18 \cup 26..29, 16..19 \cup 26..29}}] >>

ProblemIds == 1..Min(NumProblems, Len(Problems))

InitSolver ==
    /\ OtherOff
    /\ PlacementsOff
    /\ BrokenOff
    /\ \E p \in ProblemIds :
          /\ start = from_garbage(Problems[p].garbage)
          /\ bags = Problems[p].bags
          /\ legal_boards \in {{}, Problems[p].boards}
    /\ can_hold \in BOOLEAN
    /\ solver_physics \in PhysicsSet
    /\ place_last = FALSE
    /\ stage = 1
    /\ scanned = <<>>
    /\ scan_prev = <<>>
    /\ culled = {}
    /\ place_prev = <<>>
    /\ solutions = <<>>
    /\ spc = "start"
    /\ todo = {}
    /\ next_map = <<>>
    /\ drained = <<>>

\* compute up to the first stage of scan: no bags, or place_last and prev
Compute ==
    /\ spc = "start"
    /\ IF bags = <<>>
       THEN /\ solutions' = <<start>>
            /\ spc' = "done"
            /\ UNCHANGED <<place_last, scan_prev>>
       ELSE LET piece_count == Len(flat_map(bags, 1))
                new_mino_count == piece_count * 4
            IN  /\ place_last' = (count_ones(start.board) + new_mino_count <= 40)
                /\ scan_prev' = [b \in {start.board} |->
                                    [queues |-> Bag_init_hold(bags[1]), preds |-> {}]]
                /\ spc' = "scan"
                /\ UNCHANGED solutions
    /\ UNCHANGED <<legal_boards, start, bags, can_hold, solver_physics, stage, scanned,
                   culled, place_prev>>
    /\ UNCHANGED <<placementVars, brokenVars, hashVars, otherVars>>

\* scan: one pass of the stage loop
ScanStage ==
    /\ spc = "scan"
    /\ stage <= Len(stage_loop(bags))
    /\ LET e == stage_loop(bags)[stage]
       IN  scan_prev' = scan_stage(scan_prev, bags[e[1]], e[2], can_hold,
                                   legal_boards, solver_physics)
    /\ scanned' = Append(scanned, scan_prev)
    /\ stage' = stage + 1
    /\ UNCHANGED <<legal_boards, start, bags, can_hold, solver_physics, place_last,
                   culled, place_prev, solutions, spc>>
    /\ UNCHANGED <<placementVars, brokenVars, hashVars, otherVars>>

\* scan: after the loop, the place_last block and the final push
ScanLast ==
    /\ spc = "scan"
    /\ stage > Len(stage_loop(bags))
    /\ IF place_last
       THEN /\ scan_prev' = scan_last(scan_prev, legal_boards, solver_physics)
            /\ scanned' = scanned \o <<scan_prev, scan_prev'>>
       ELSE /\ scanned' = Append(scanned, scan_prev)
            /\ UNCHANGED scan_prev
    /\ spc' = "scanned"
    /\ UNCHANGED <<legal_boards, start, bags, can_hold, solver_physics, place_last, stage,
                   culled, place_prev, solutions>>
    /\ UNCHANGED <<placementVars, brokenVars, hashVars, otherVars>>

\* cull(&scanned), and place up to its first stage
Cull ==
    /\ spc = "scanned"
    /\ culled' = cull(scanned)
    /\ place_prev' = [b \in {start} |-> Bag_init_hold(bags[1])]
    /\ stage' = 1
    /\ spc' = "place"
    /\ UNCHANGED <<legal_boards, start, bags, can_hold, solver_physics, place_last,
                   scanned, scan_prev, solutions>>
    /\ UNCHANGED <<placementVars, brokenVars, hashVars, otherVars>>

\* place: one pass of the stage loop
PlaceStage ==
    /\ spc = "place"
    /\ stage <= Len(stage_loop(bags))
    /\ LET e == stage_loop(bags)[stage]
       IN  place_prev' = place_stage(place_prev, bags[e[1]], e[2], can_hold,
                                     culled, solver_physics)
    /\ stage' = stage + 1
    /\ UNCHANGED <<legal_boards, start, bags, can_hold, solver_physics, place_last,
                   scanned, scan_prev, culled, solutions, spc>>
    /\ UNCHANGED <<placementVars, brokenVars, hashVars, otherVars>>

\* place: after the loop, the place_last block
PlaceLast ==
    /\ spc = "place"
    /\ stage > Len(stage_loop(bags))
    /\ place_prev' = IF place_last THEN place_held(place_prev, culled, solver_physics)
                     ELSE place_prev
    /\ spc' = "placed"
    /\ UNCHANGED <<legal_boards, start, bags, can_hold, solver_physics, place_last, stage,
                   scanned, scan_prev, culled, solutions>>
    /\ UNCHANGED <<placementVars, brokenVars, hashVars, otherVars>>

\* compute: the solutions, sorted
Collect ==
    /\ spc = "placed"
    /\ solutions' = sorted_solutions(place_prev)
    /\ spc' = "done"
    /\ UNCHANGED <<legal_boards, start, bags, can_hold, solver_physics, place_last, stage,
                   scanned, scan_prev, culled, place_prev>>
    /\ UNCHANGED <<placementVars, brokenVars, hashVars, otherVars>>

NextSolver ==
    \/ Compute
    \/ ScanStage
    \/ ScanLast
    \/ Cull
    \/ PlaceStage
    \/ PlaceLast
    \/ Collect

SpecSolver == InitSolver /\ [][NextSolver]_vars

(***************************************************************************)
(* Properties of the solver                                                *)
(***************************************************************************)
\* The boards that are keys of stage k.
StageKeys(k) == DOMAIN scanned[k]

\* Board b, a key of stage k, starts a chain of recorded predecessors that
\* ends in a key of the final stage.
RECURSIVE OnCompletePath(_, _)
OnCompletePath(b, k) ==
    /\ b \in StageKeys(k)
    /\ \/ k = Len(scanned)
       \/ \E next \in StageKeys(k + 1) :
             /\ b \in scanned[k + 1][next].preds
             /\ OnCompletePath(next, k + 1)

\* C9: the set cull returns holds exactly the boards that are a key of some
\* scan stage and lie on a chain of recorded predecessors that ends in a
\* key of the final stage.
C9_CullKeepsCompletePaths ==
    spc \in {"place", "placed", "done"} =>
        culled = {b \in UNION {StageKeys(k) : k \in 1..Len(scanned)} :
                     \E k \in 1..Len(scanned) : OnCompletePath(b, k)}

C9_Witness ==
    /\ spc = "place"
    /\ Len(scanned) >= 3
    /\ start.board \in culled
    /\ \E k \in 2..(Len(scanned) - 1) :
          /\ StageKeys(k) \cap culled /= {}
          /\ StageKeys(k) \ culled /= {}

\* The call of the boundary scenario: bottom row full, one bag holding one I,
\* no hold; compute has returned.
OneIOnFullRow ==
    /\ spc = "done"
    /\ start = from_garbage(FULL_10)
    /\ bags = <<Bag_new(<<I>>, 1)>>
    /\ ~can_hold

\* A solution of that call: one horizontal I on the cleared bottom row.
FlatIOnClearedRow(bb) ==
    /\ bb.cleared_rows = {0}
    /\ Len(bb.pieces) = 1
    /\ bb.pieces[1].shape = I
    /\ bb.pieces[1].orientation = North
    /\ bb.pieces[1].rows = {1}
    /\ bb.pieces[1].low_mino \in 10..16
    /\ bb.board = FULL_10 \cup (bb.pieces[1].low_mino)..(bb.pieces[1].low_mino + 3)

\* C10 as stated: from garbage 0x3FF with a queue of one I and no hold, the
\* solver returns exactly one solution, a horizontal I on the cleared row.
C10_OneSolution ==
    OneIOnFullRow =>
        /\ Len(solutions) = 1
        /\ FlatIOnClearedRow(solutions[1])

\* C10, amended: with no list of legal boards the solver returns seven
\* solutions, one for each column 0..6 of the horizontal I on the cleared
\* row; with a list, those of the seven whose board is in the list.
C10_OneSolutionPerColumn ==
    OneIOnFullRow =>
        /\ \A k \in 1..Len(solutions) : FlatIOnClearedRow(solutions[k])
        /\ {solutions[k].pieces[1].low_mino : k \in 1..Len(solutions)} =
              {c \in 10..16 : admitted(legal_boards, FULL_10 \cup c..(c + 3))}
        /\ Len(solutions) =
              Cardinality({c \in 10..16 : admitted(legal_boards, FULL_10 \cup c..(c + 3))})
        /\ legal_boards = {} => Len(solutions) = 7

C10_Witness ==
    /\ OneIOnFullRow
    /\ legal_boards = {}
    /\ Len(solutions) = 7
    /\ \A k \in 1..6 : BrokenBoard_lt(solutions[k], solutions[k + 1])

(***************************************************************************)
(* compute with its hash maps iterated in any order.  The lists of queue   *)
(* states and of predecessors are sequences in push order, a hash map is a *)
(* function, and each pass of a `for` over a hash map visits one entry     *)
(* that is still to come, whichever it is.                                 *)
(***************************************************************************)
\* if !list.contains(&x) { list.push(x) }
push_new(list, x) == IF x \in Items(list) THEN list ELSE Append(list, x)

RECURSIVE push_all(_, _)
push_all(list, xs) ==
    IF xs = <<>> THEN list ELSE push_all(push_new(list, Head(xs)), Tail(xs))

\* The states the loop over Shape::ALL of swap yields, in its order.
swaps_vec(queue, bag) ==
    LET some(r) == r.result = "Some"
        all == SelectSeq([k \in 1..7 |-> QueueState_swap(queue, bag, k - 1)], some)
    IN  [k \in 1..Len(all) |-> all[k].value]

\* Bag::init_hold, collected in the order of Shape::ALL.
init_hold_vec(self) == swaps_vec(self.full, self)

\* What one queue of Bag::take offers to states, in order.
take_one(self, q, s, is_first, hold_allowed) ==
    IF QueueState_hold(IF is_first THEN QueueState_next(q, self) ELSE q) = s
    THEN swaps_vec(IF is_first THEN QueueState_next(q, self) ELSE q, self)
    ELSE IF hold_allowed /\
            QueueState_take(IF is_first THEN QueueState_next(q, self) ELSE q, self, s).result = "Some"
         THEN <<QueueState_take(IF is_first THEN QueueState_next(q, self) ELSE q, self, s).value>>
         ELSE <<>>

\* Bag::take on a list of queues: the new states in push order.
RECURSIVE take_vec(_, _, _, _, _, _, _)
take_vec(self, queues, k, s, is_first, hold_allowed, states) ==
    IF k > Len(queues) THEN states
    ELSE take_vec(self, queues, k + 1, s, is_first, hold_allowed,
                  push_all(states, take_one(self, queues[k], s, is_first, hold_allowed)))

\* The items of Placements::place(board, shape, physics).canonical(), in the
\* order the iterator yields them.
canonical_items(b, s, ph) == Placements_collect(Placements_canonical(Placements_place(b, s, ph)))

\* A hash map with one entry set.
with_entry(map, key, entry) ==
    [x \in (DOMAIN map) \cup {key} |-> IF x = key THEN entry ELSE map[x]]

\* next.entry(new_board).or_default()
or_default(map, key, default) == IF key \in DOMAIN map THEN map[key] ELSE default

\* The pushes of scan into one entry.
scan_push(entry, old_board, new_queues) ==
    [queues |-> push_all(entry.queues, new_queues), preds |-> push_new(entry.preds, old_board)]

\* The loop of scan over the placements of one shape, from item k on.
RECURSIVE scan_items(_, _, _, _, _, _)
scan_items(next, items, k, old_board, new_queues, legal) ==
    IF k > Len(items) THEN next
    ELSE IF ~admitted(legal, items[k][2])
         THEN scan_items(next, items, k + 1, old_board, new_queues, legal)
         ELSE scan_items(with_entry(next, items[k][2],
                                    scan_push(or_default(next, items[k][2],
                                                         [queues |-> <<>>, preds |-> <<>>]),
                                              old_board, new_queues)),
                         items, k + 1, old_board, new_queues, legal)

\* The loop of scan over Shape::ALL for one entry of prev, from shape s on.
\* In the place_last block (last) the shapes are those some queue holds, and
\* no queue is pushed.
RECURSIVE scan_visit(_, _, _, _, _, _, _, _, _, _)
scan_visit(next, s, old_board, old_queues, bag, i, hold_allowed, legal, ph, last) ==
    IF s > Z THEN next
    ELSE IF last
         THEN scan_visit(IF holds(Items(old_queues), s)
                         THEN scan_items(next, canonical_items(old_board, s, ph), 1,
                                         old_board, <<>>, legal)
                         ELSE next,
                         s + 1, old_board, old_queues, bag, i, hold_allowed, legal, ph, last)
         ELSE scan_visit(IF take_vec(bag, old_queues, 1, s, i = 0, hold_allowed, <<>>) = <<>>
                         THEN next
                         ELSE scan_items(next, canonical_items(old_board, s, ph), 1, old_board,
                                         take_vec(bag, old_queues, 1, s, i = 0, hold_allowed, <<>>),
                                         legal),
                         s + 1, old_board, old_queues, bag, i, hold_allowed, legal, ph, last)

\* The loop of place over the placements of one shape, from item k on.
RECURSIVE place_items(_, _, _, _, _, _, _)
place_items(next, items, k, old_board, new_queues, keep, last) ==
    IF k > Len(items) THEN next
    ELSE IF items[k][2] \notin keep
         THEN place_items(next, items, k + 1, old_board, new_queues, keep, last)
         ELSE place_items(with_entry(next, BrokenBoard_place(old_board, items[k][1]),
                                     IF last THEN <<>>
                                     ELSE push_all(or_default(next,
                                                              BrokenBoard_place(old_board, items[k][1]),
                                                              <<>>),
                                                   new_queues)),
                          items, k + 1, old_board, new_queues, keep, last)

\* The loop of place over Shape::ALL for one entry of prev, from shape s on.
RECURSIVE place_visit(_, _, _, _, _, _, _, _, _, _)
place_visit(next, s, old_board, old_queues, bag, i, hold_allowed, keep, ph, last) ==
    IF s > Z THEN next
    ELSE IF last
         THEN place_visit(IF holds(Items(old_queues), s)
                          THEN place_items(next, canonical_items(old_board.board, s, ph), 1,
                                           old_board, <<>>, keep, last)
                          ELSE next,
                          s + 1, old_board, old_queues, bag, i, hold_allowed, keep, ph, last)
         ELSE place_visit(IF take_vec(bag, old_queues, 1, s, i = 0, hold_allowed, <<>>) = <<>>
                          THEN next
                          ELSE place_items(next, canonical_items(old_board.board, s, ph), 1,
                                           old_board,
                                           take_vec(bag, old_queues, 1, s, i = 0, hold_allowed, <<>>),
                                           keep, last),
                          s + 1, old_board, old_queues, bag, i, hold_allowed, keep, ph, last)

\* solutions.sort_unstable() that leaves the Vec as collected.
keep_collected(v) == v

\* solutions.sort_unstable() on the Vec as collected.
RECURSIVE sort_unstable_boards(_)
sort_unstable_boards(v) ==
    IF v = <<>> THEN <<>>
    ELSE LET least == CHOOSE k \in 1..Len(v) : \A j \in 1..Len(v) : ~BrokenBoard_lt(v[j], v[k])
         IN  <<v[least]>>
             \o sort_unstable_boards(SubSeq(v, 1, least - 1) \o SubSeq(v, least + 1, Len(v)))

NumHashedProblems == 4

\* The problems run with every iteration order: those with small stages.
HashedProblems == <<8, 2, 4, 5, 6, 7>>

NoEntries == [b \in {} |-> <<>>]

InitHashed ==
    /\ OtherOff
    /\ PlacementsOff
    /\ BrokenOff
    /\ \E n \in 1..Min(NumHashedProblems, Len(HashedProblems)) :
          /\ start = from_garbage(Problems[HashedProblems[n]].garbage)
          /\ bags = Problems[HashedProblems[n]].bags
          /\ legal_boards \in {{}, Problems[HashedProblems[n]].boards}
    /\ can_hold \in BOOLEAN
    /\ solver_physics \in PhysicsSet
    /\ place_last = FALSE
    /\ stage = 1
    /\ scanned = <<>>
    /\ scan_prev = NoEntries
    /\ culled = {}
    /\ place_prev = NoEntries
    /\ solutions = <<>>
    /\ spc = "start"
    /\ todo = {}
    /\ next_map = NoEntries
    /\ drained = <<>>

\* compute up to the first stage of scan
HCompute ==
    /\ spc = "start"
    /\ IF bags = <<>>
       THEN /\ solutions' = <<start>>
            /\ spc' = "done"
            /\ UNCHANGED <<place_last, scan_prev, todo>>
       ELSE /\ place_last' = (count_ones(start.board) + Len(flat_map(bags, 1)) * 4 <= 40)
            /\ scan_prev' = [b \in {start.board} |->
                                [queues |-> init_hold_vec(bags[1]), preds |-> <<>>]]
            /\ todo' = IF stage_loop(bags) = <<>> /\ ~place_last' THEN {} ELSE {start.board}
            /\ spc' = "scan"
            /\ UNCHANGED solutions
    /\ UNCHANGED <<legal_boards, start, bags, can_hold, solver_physics, stage, scanned,
                   culled, place_prev, next_map, drained>>
    /\ UNCHANGED <<placementVars, brokenVars, otherVars>>

\* Whether the loop under way is the place_last block.
InLastBlock == stage > Len(stage_loop(bags))

\* The bag and i of the stage loop pass under way (those of the last pass
\* in the place_last block, where they are not read).
StageBag == bags[stage_loop(bags)[Min(stage, Len(stage_loop(bags)))][1]]

StageI == stage_loop(bags)[Min(stage, Len(stage_loop(bags)))][2]

\* scan: the body of `for (old_board, ..) in prev.iter()` for one entry
HScanVisit(old_board) ==
    /\ spc = "scan"
    /\ old_board \in todo
    /\ next_map' = IF stage_loop(bags) = <<>>
                   THEN scan_visit(next_map, I, old_board, scan_prev[old_board].queues,
                                   bags[1], 0, can_hold, legal_boards, solver_physics, TRUE)
                   ELSE scan_visit(next_map, I, old_board, scan_prev[old_board].queues,
                                   StageBag, StageI, can_hold, legal_boards, solver_physics,
                                   InLastBlock)
    /\ todo' = todo \ {old_board}
    /\ UNCHANGED <<legal_boards, start, bags, can_hold, solver_physics, place_last, stage,
                   scanned, scan_prev, culled, place_prev, solutions, spc, drained>>
    /\ UNCHANGED <<placementVars, brokenVars, otherVars>>

\* scan: the end of a pass of the stage loop, or of scan itself
HScanNext ==
    /\ spc = "scan"
    /\ todo = {}
    /\ IF ~InLastBlock
       THEN /\ scanned' = Append(scanned, scan_prev)
            /\ scan_prev' = next_map
            /\ todo' = IF stage + 1 > Len(stage_loop(bags)) /\ ~place_last
                       THEN {} ELSE DOMAIN next_map
            /\ stage' = stage + 1
            /\ UNCHANGED spc
       ELSE /\ scanned' = IF place_last THEN scanned \o <<scan_prev, next_map>>
                          ELSE Append(scanned, scan_prev)
            /\ todo' = DOMAIN scanned'[Len(scanned')]
            /\ stage' = Len(scanned')
            /\ spc' = "cull"
            /\ UNCHANGED scan_prev
    /\ next_map' = NoEntries
    /\ UNCHANGED <<legal_boards, start, bags, can_hold, solver_physics, place_last,
                   culled, place_prev, solutions, drained>>
    /\ UNCHANGED <<placementVars, brokenVars, otherVars>>

\* cull: the body of `for (board, (_, preds)) in stage.iter()` for one entry
\* of the stage under way, the final stage first
HCullVisit(b) ==
    /\ spc = "cull"
    /\ b \in todo
    /\ culled' = IF stage = Len(scanned)
                 THEN culled \cup {b} \cup Items(scanned[stage][b].preds)
                 ELSE IF b \in culled THEN culled \cup Items(scanned[stage][b].preds)
                      ELSE culled
    /\ todo' = todo \ {b}
    /\ UNCHANGED <<legal_boards, start, bags, can_hold, solver_physics, place_last, stage,
                   scanned, scan_prev, place_prev, solutions, spc, next_map, drained>>
    /\ UNCHANGED <<placementVars, brokenVars, otherVars>>

\* cull: the stage before, or the end of cull and the first lines of place
HCullNext ==
    /\ spc = "cull"
    /\ todo = {}
    /\ IF stage > 1
       THEN /\ stage' = stage - 1
            /\ todo' = DOMAIN scanned[stage - 1]
            /\ UNCHANGED <<place_prev, spc>>
       ELSE /\ stage' = 1
            /\ place_prev' = [b \in {start} |-> init_hold_vec(bags[1])]
            /\ todo' = IF stage_loop(bags) = <<>> /\ ~place_last THEN {} ELSE {start}
            /\ spc' = "place"
    /\ UNCHANGED <<legal_boards, start, bags, can_hold, solver_physics, place_last,
                   scanned, scan_prev, culled, solutions, next_map, drained>>
    /\ UNCHANGED <<placementVars, brokenVars, otherVars>>

\* place: the body of `for (old_board, old_queues) in prev.iter()` for one entry
HPlaceVisit(old_board) ==
    /\ spc = "place"
    /\ old_board \in todo
    /\ next_map' = IF stage_loop(bags) = <<>>
                   THEN place_visit(next_map, I, old_board, place_prev[old_board],
                                    bags[1], 0, can_hold, culled, solver_physics, TRUE)
                   ELSE place_visit(next_map, I, old_board, place_prev[old_board],
                                    StageBag, StageI, can_hold, culled, solver_physics,
                                    InLastBlock)
    /\ todo' = todo \ {old_board}
    /\ UNCHANGED <<legal_boards, start, bags, can_hold, solver_physics, place_last, stage,
                   scanned, scan_prev, culled, place_prev, solutions, spc, drained>>
    /\ UNCHANGED <<placementVars, brokenVars, otherVars>>

\* place: the end of a pass of the stage loop, or of place itself
HPlaceNext ==
    /\ spc = "place"
    /\ todo = {}
    /\ IF ~InLastBlock
       THEN /\ place_prev' = next_map
            /\ todo' = IF stage + 1 > Len(stage_loop(bags)) /\ ~place_last
                       THEN {} ELSE DOMAIN next_map
            /\ stage' = stage + 1
            /\ UNCHANGED spc
       ELSE /\ place_prev' = IF place_last THEN next_map ELSE place_prev
            /\ todo' = DOMAIN place_prev'
            /\ spc' = "drain"
            /\ UNCHANGED stage
    /\ next_map' = NoEntries
    /\ UNCHANGED <<legal_boards, start, bags, can_hold, solver_physics, place_last,
                   scanned, scan_prev, culled, solutions, drained>>
    /\ UNCHANGED <<placementVars, brokenVars, otherVars>>

\* compute: placed.drain() yields one more entry
HDrain(b) ==
    /\ spc = "drain"
    /\ b \in todo
    /\ drained' = Append(drained, b)
    /\ todo' = todo \ {b}
    /\ UNCHANGED <<legal_boards, start, bags, can_hold, solver_physics, place_last, stage,
                   scanned, scan_prev, culled, place_prev, solutions, spc, next_map>>
    /\ UNCHANGED <<placementVars, brokenVars, otherVars>>

\* compute: solutions.sort_unstable() and the return
HSort ==
    /\ spc = "drain"
    /\ todo = {}
    /\ solutions' = sort_unstable_boards(drained)
    /\ spc' = "done"
    /\ UNCHANGED <<legal_boards, start, bags, can_hold, solver_physics, place_last, stage,
                   scanned, scan_prev, culled, place_prev, todo, next_map, drained>>
    /\ UNCHANGED <<placementVars, brokenVars, otherVars>>

NextHashed ==
    \/ HCompute
    \/ \E b \in todo : HScanVisit(b)
    \/ HScanNext
    \/ \E b \in todo : HCullVisit(b)
    \/ HCullNext
    \/ \E b \in todo : HPlaceVisit(b)
    \/ HPlaceNext
    \/ \E b \in todo : HDrain(b)
    \/ HSort

SpecHashed == InitHashed /\ [][NextHashed]_vars

(***************************************************************************)
(* compute as a function of its arguments, on the maps as sets.            *)
(***************************************************************************)
\* The stage loop of scan from pass k on: the stages pushed, then prev.
RECURSIVE scan_loop(_, _, _, _, _, _, _)
scan_loop(stgs, prev, k, bs, hold_allowed, legal, ph) ==
    IF k > Len(stage_loop(bs)) THEN Append(stgs, prev)
    ELSE scan_loop(Append(stgs, prev),
                   scan_stage(prev, bs[stage_loop(bs)[k][1]], stage_loop(bs)[k][2],
                              hold_allowed, legal, ph),
                   k + 1, bs, hold_allowed, legal, ph)

\* The place_last block of scan and the final push.
scan_finish(stgs, last, legal, ph) ==
    IF last THEN Append(stgs, scan_last(stgs[Len(stgs)], legal, ph)) ELSE stgs

scan(legal, start_board, bs, hold_allowed, last, ph) ==
    scan_finish(scan_loop(<<>>, [b \in {start_board} |->
                                    [queues |-> Bag_init_hold(bs[1]), preds |-> {}]],
                          1, bs, hold_allowed, legal, ph),
                last, legal, ph)

\* The stage loop of place from pass k on.
RECURSIVE place_loop(_, _, _, _, _, _)
place_loop(prev, k, bs, hold_allowed, keep, ph) ==
    IF k > Len(stage_loop(bs)) THEN prev
    ELSE place_loop(place_stage(prev, bs[stage_loop(bs)[k][1]], stage_loop(bs)[k][2],
                                hold_allowed, keep, ph),
                    k + 1, bs, hold_allowed, keep, ph)

place(keep, st, bs, hold_allowed, last, ph) ==
    IF last
    THEN place_held(place_loop([b \in {st} |-> Bag_init_hold(bs[1])], 1, bs,
                               hold_allowed, keep, ph),
                    keep, ph)
    ELSE place_loop([b \in {st} |-> Bag_init_hold(bs[1])], 1, bs, hold_allowed, keep, ph)

compute(legal, st, bs, hold_allowed, ph) ==
    IF bs = <<>> THEN <<st>>
    ELSE sorted_solutions(
             place(cull(scan(legal, st.board, bs, hold_allowed,
                             count_ones(st.board) + Len(flat_map(bs, 1)) * 4 <= 40, ph)),
                   st, bs, hold_allowed,
                   count_ones(st.board) + Len(flat_map(bs, 1)) * 4 <= 40, ph))

\* C11: for fixed legal boards, start board, bags, can_hold and physics, the
\* sorted list compute returns is the same whatever the order in which its
\* hash maps and hash sets are iterated: every run ends with the list that
\* the arguments alone determine.
C11_ResultIndependentOfOrder ==
    spc = "done" => solutions = compute(legal_boards, start, bags, can_hold, solver_physics)

\* A run whose drain yielded several solutions in an order other than the
\* sorted one, after stages that had several entries to iterate.
C11_Witness ==
    /\ spc = "done"
    /\ Len(solutions) >= 3
    /\ drained /= solutions
    /\ \E k \in 1..Len(scanned) : Cardinality(DOMAIN scanned[k]) >= 2

(***************************************************************************)
(* The graph of legal boards (boardgraph.rs).  compute starts from the     *)
(* empty board and builds ten stages; here it runs on the last stages of   *)
(* the graph, from a board that the recorded games reach.                  *)
(***************************************************************************)
\* impl BitOr for Placements
Placements_or(self, rhs) ==
    [self EXCEPT !.positions = [o \in Orientations |-> self.positions[o] \cup rhs.positions[o]]]

\* (Placements::place(board, shape, Jstris) | Placements::place(board, shape, Tetrio)).canonical()
graph_items(b, s) ==
    Placements_collect(Placements_canonical(
        Placements_or(Placements_place(b, s, "Jstris"), Placements_place(b, s, "Tetrio"))))

\* The pruning of compute that keeps every board.
retained_all(new_board) == TRUE

\* !(new_board.has_isolated_cell() || new_board.has_imbalanced_split())
retained(new_board) == ~(has_isolated_cell(new_board) \/ has_imbalanced_split(new_board))

\* The new boards that the body of for_each reaches the shard guard with,
\* in order, from shape s on.
RECURSIVE new_boards(_, _)
new_boards(b, s) ==
    IF s > Z THEN <<>>
    ELSE SelectSeq([k \in 1..Len(graph_items(b, s)) |-> graph_items(b, s)[k][2]], retained)
         \o new_boards(b, s + 1)

\* The board of a recorded game after t pieces.
RECURSIVE board_after(_, _)
board_after(g, t) ==
    IF t = 0 THEN {}
    ELSE Piece_place(MkPiece(Games[g][t][1], Games[g][t][3], Games[g][t][4], Games[g][t][2]),
                     board_after(g, t - 1))

NumGraphStarts == 2

\* The boards compute is run from: <<game, t>> is the board of stage t that
\* the recorded game reaches with its first t pieces.
GraphStarts == << <<1, 8>>, <<2, 7>>, <<8, 7>>, <<3, 7>>, <<6, 7>> >>

\* The rayon threads, by rayon::current_thread_index().
NumWorkers == 2

Workers == 0..(NumWorkers - 1)

FULL == BOARD_MASK

Idle == [busy |-> FALSE, board |-> {}, items |-> <<>>]

\* let mut guard = this_stage.get_shard_guard(&new_board); the entry and the
\* push under the guard, with the entry replaced instead of extended.
guard_push_fresh(this_stage, new_board, b) == with_entry(this_stage, new_board, <<b>>)

\* let mut guard = this_stage.get_shard_guard(&new_board);
\* let preds = guard.entry(new_board).or_default();
\* if !preds.contains(&board) { preds.push(board); }
guard_push(this_stage, new_board, b) ==
    with_entry(this_stage, new_board, push_new(or_default(this_stage, new_board, <<>>), b))

\* all_boards.par_sort_unstable() that leaves the Vec as it is.
keep_unsorted(v) == v

\* all_boards.par_sort_unstable()
RECURSIVE par_sort_unstable(_)
par_sort_unstable(v) ==
    IF v = <<>> THEN <<>>
    ELSE LET least == CHOOSE k \in 1..Len(v) : \A j \in 1..Len(v) : ~u64_lt(v[j], v[k])
         IN  <<v[least]>>
             \o par_sort_unstable(SubSeq(v, 1, least - 1) \o SubSeq(v, least + 1, Len(v)))

\* The new boards that the placement searches of the closure find from each
\* of the boards, searched once for the stage.
to_visit(boards) == [b \in boards |-> new_boards(b, I)]

\* compute up to the pass of the stage loop that builds stage t + 1, with
\* a board of stage t for the only entry of the stages so far.  stages[k + 1]
\* is the code's stages[k].
InitGraph ==
    /\ PlacementsOff
    /\ BrokenOff
    /\ SolverOff
    /\ UnitOff
    /\ \E n \in 1..Min(NumGraphStarts, Len(GraphStarts)) :
          /\ stages = [k \in 1..11 |->
                          IF k = GraphStarts[n][2] + 1
                          THEN [b \in {board_after(GraphStarts[n][1], GraphStarts[n][2])} |-> <<>>]
                          ELSE NoEntries]
          /\ iter = GraphStarts[n][2] + 1
    /\ unvisited = DOMAIN stages[iter]
    /\ searched = [k \in 1..11 |-> IF k = iter THEN to_visit(DOMAIN stages[k]) ELSE NoEntries]
    /\ job = [w \in Workers |-> Idle]
    /\ work = {}
    /\ sweep = 0
    /\ all_boards = <<>>
    /\ gpc = "build"
    /\ cells = [w \in Workers |-> 0]
    /\ total = 1
    /\ visible = <<>>
    /\ load_idx = 0
    /\ sum = 0
    /\ counted = 0
    /\ mpc = "off"

\* par_iter_mut().for_each: worker w takes an entry of prev_stage and runs
\* the placement searches of the closure, which read the board only.  When
\* they find no board to keep, the closure goes on to counter.increment().
GTake(w, b) ==
    /\ gpc = "build"
    /\ ~job[w].busy
    /\ b \in unvisited
    /\ IF searched[iter][b] = <<>>
       THEN /\ cells' = [cells EXCEPT ![w] = @ + 1]
            /\ UNCHANGED job
       ELSE /\ job' = [job EXCEPT ![w] = [busy |-> TRUE, board |-> b, items |-> searched[iter][b]]]
            /\ UNCHANGED cells
    /\ unvisited' = unvisited \ {b}
    /\ UNCHANGED <<stages, iter, searched, work, sweep, all_boards, gpc>>
    /\ UNCHANGED <<visible, total, load_idx, sum, counted, mpc>>
    /\ UNCHANGED <<placementVars, brokenVars, solverVars, unitVars>>

\* The lines under the shard guard, for the next new board of worker w.
\* After the last one the closure goes on to counter.increment(), which
\* writes a cell that no other worker writes.
GInsert(w) ==
    /\ gpc = "build"
    /\ job[w].busy
    /\ stages' = [stages EXCEPT ![iter + 1] = guard_push(@, Head(job[w].items), job[w].board)]
    /\ IF Tail(job[w].items) = <<>>
       THEN /\ cells' = [cells EXCEPT ![w] = @ + 1]
            /\ job' = [job EXCEPT ![w] = Idle]
       ELSE /\ job' = [job EXCEPT ![w].items = Tail(@)]
            /\ UNCHANGED cells
    /\ UNCHANGED <<iter, unvisited, searched, work, sweep, all_boards, gpc>>
    /\ UNCHANGED <<visible, total, load_idx, sum, counted, mpc>>
    /\ UNCHANGED <<placementVars, brokenVars, solverVars, unitVars>>

\* The scope ends: the next pass of the stage loop with a new Counter, or
\* after the last pass the freeze and the first lines of the backward sweep.
GEndStage ==
    /\ gpc = "build"
    /\ unvisited = {}
    /\ \A w \in Workers : ~job[w].busy
    /\ IF iter < 10
       THEN /\ iter' = iter + 1
            /\ unvisited' = DOMAIN stages[iter + 1]
            /\ searched' = [searched EXCEPT ![iter + 1] = to_visit(DOMAIN stages[iter + 1])]
            /\ total' = Cardinality(DOMAIN stages[iter + 1])
            /\ UNCHANGED <<work, sweep, all_boards, gpc>>
       ELSE /\ work' = {FULL}
            /\ all_boards' = <<FULL>>
            /\ sweep' = 11
            /\ gpc' = "sweep"
            /\ UNCHANGED <<iter, unvisited, searched, total>>
    /\ cells' = [w \in Workers |-> 0]
    /\ UNCHANGED <<stages, job>>
    /\ UNCHANGED <<visible, load_idx, sum, counted, mpc>>
    /\ UNCHANGED <<placementVars, brokenVars, solverVars, unitVars>>

\* One pass of the backward sweep up to the collect: work becomes the preds
\* of its boards; stage.get(&board).unwrap() panics on a board that is no key.
\* Once work is empty the passes that are left look nothing up and extend
\* all_boards by nothing, and the sweep is through.
GSweep ==
    /\ gpc = "sweep"
    /\ unvisited = {}
    /\ sweep >= 1
    /\ IF work \subseteq DOMAIN stages[sweep]
       THEN /\ work' = UNION {Items(stages[sweep][b]) : b \in work}
            /\ unvisited' = work'
            /\ sweep' = IF work' = {} THEN 0 ELSE sweep - 1
            /\ UNCHANGED gpc
       ELSE /\ gpc' = "panicked"
            /\ UNCHANGED <<work, unvisited, sweep>>
    /\ UNCHANGED <<stages, iter, searched, job, all_boards>>
    /\ UNCHANGED <<placementVars, brokenVars, solverVars, counterVars, unitVars>>

\* all_boards.extend(work.iter()..): the iterator yields one more board
GExtend(b) ==
    /\ gpc = "sweep"
    /\ b \in unvisited
    /\ all_boards' = Append(all_boards, b)
    /\ unvisited' = unvisited \ {b}
    /\ UNCHANGED <<stages, iter, searched, job, work, sweep, gpc>>
    /\ UNCHANGED <<placementVars, brokenVars, solverVars, counterVars, unitVars>>

\* all_boards.par_sort_unstable() and the return
GSort ==
    /\ gpc = "sweep"
    /\ unvisited = {}
    /\ sweep = 0
    /\ all_boards' = par_sort_unstable(all_boards)
    /\ gpc' = "done"
    /\ UNCHANGED <<stages, iter, unvisited, searched, job, work, sweep>>
    /\ UNCHANGED <<placementVars, brokenVars, solverVars, counterVars, unitVars>>

NextGraph ==
    \/ \E w \in Workers, b \in unvisited : GTake(w, b)
    \/ \E w \in Workers : GInsert(w)
    \/ GEndStage
    \/ GSweep
    \/ \E b \in unvisited : GExtend(b)
    \/ GSort

SpecGraph == InitGraph /\ [][NextGraph]_vars

(***************************************************************************)
(* Properties of the graph of legal boards                                 *)
(***************************************************************************)
\* Board b, a key of stages[k], starts a chain of retained placements that
\* runs through keys of the later stages to the full board in the last one.
RECURSIVE LeadsToFull(_, _)
LeadsToFull(b, k) ==
    IF k = 11 THEN b = FULL
    ELSE \E b2 \in (DOMAIN stages[k + 1]) \cap Items(searched[k][b]) : LeadsToFull(b2, k + 1)

\* C12: compute returns a board if and only if it is a key of some stage and
\* a chain of retained placements leads from it to the full board in the
\* last stage; the list returned is sorted ascending.
C12_ReturnsBoardsOnChainsToFull ==
    gpc = "done" =>
        /\ Items(all_boards) =
               UNION {{b \in DOMAIN stages[k] : LeadsToFull(b, k)} : k \in 1..11}
        /\ \A k \in 1..(Len(all_boards) - 1) : u64_lt(all_boards[k], all_boards[k + 1])

\* A return of several boards, with a stage that holds a key no chain leads
\* from to the full board.
C12_Witness ==
    /\ gpc = "done"
    /\ Len(all_boards) >= 5
    /\ \E k \in 1..11 : \E b \in DOMAIN stages[k] : b \notin Items(all_boards)

\* C13: while the graph is built, every key of every stage is below 2^40,
\* has no isolated cell and has no imbalanced split.
C13_StageKeysPruned ==
    gpc = "build" =>
        \A k \in 1..Len(stages) : \A b \in DOMAIN stages[k] :
            /\ b \subseteq BOARD_MASK
            /\ ~has_isolated_cell(b)
            /\ ~has_imbalanced_split(b)

\* A stage under construction that holds several keys, built from a board
\* for which a placement search searched a board that was not retained.
C13_Witness ==
    /\ gpc = "build"
    /\ Cardinality(DOMAIN stages[iter + 1]) >= 2
    /\ \A w \in Workers : ~job[w].busy
    /\ unvisited = {}
    /\ \E b \in DOMAIN stages[iter] : \E s \in Shapes :
          \E k \in 1..Len(graph_items(b, s)) : ~retained(graph_items(b, s)[k][2])

\* The stage that was built last is finished: every worker is through.
StageFinished ==
    /\ gpc = "build"
    /\ unvisited = {}
    /\ \A w \in Workers : ~job[w].busy

\* C14: however the workers of a stage interleave, the finished stage has
\* the same keys and each key the same set of predecessors, no predecessor
\* twice: the keys are the retained new boards of the boards of the stage
\* before, and the predecessors of a key are the boards it is searched from.
C14_StageIndependentOfInterleaving ==
    StageFinished =>
        /\ DOMAIN stages[iter + 1] = UNION {Items(searched[iter][b]) : b \in DOMAIN stages[iter]}
        /\ \A nb \in DOMAIN stages[iter + 1] :
              /\ Items(stages[iter + 1][nb]) =
                     {b \in DOMAIN stages[iter] : nb \in Items(searched[iter][b])}
              /\ Len(stages[iter + 1][nb]) = Cardinality(Items(stages[iter + 1][nb]))

\* A finished stage to which both workers added, with a key whose
\* predecessors were pushed in descending order.
C14_Witness ==
    /\ StageFinished
    /\ \A w \in Workers : cells[w] > 0
    /\ \E nb \in DOMAIN stages[iter + 1] :
          /\ Len(stages[iter + 1][nb]) >= 2
          /\ u64_lt(stages[iter + 1][nb][2], stages[iter + 1][nb][1])

\* The same key of a finished stage with its predecessors in ascending order.
C14_WitnessAscending ==
    /\ StageFinished
    /\ \A w \in Workers : cells[w] > 0
    /\ \E nb \in DOMAIN stages[iter + 1] :
          /\ Len(stages[iter + 1][nb]) >= 2
          /\ u64_lt(stages[iter + 1][nb][1], stages[iter + 1][nb][2])

(***************************************************************************)
(* Counter (counter.rs) under the progress reporter of boardgraph.rs.  The *)
(* workers call increment, each on the cell of its own thread index; the   *)
(* reporter thread loops over get, the check against total, and a sleep.   *)
(* Every access is Relaxed: a load by the reporter returns the value of    *)
(* the cell that has become visible to it, which may lag behind the cell.  *)
(***************************************************************************)
MaxIncrements == 3

\* The sum of the cells from index c on.
RECURSIVE sum_from(_, _)
sum_from(vec, c) == IF c >= NumWorkers THEN 0 ELSE vec[c] + sum_from(vec, c + 1)

\* One step of .map(|atomic| atomic.load(Relaxed)).sum() that drops the load.
skip_load(acc, loaded) == acc

\* One step of .map(|atomic| atomic.load(Relaxed)).sum()
add_load(acc, loaded) == acc + loaded

\* Counter::zero() and total, with the reporter at its first call of get.
InitCounter ==
    /\ PlacementsOff
    /\ BrokenOff
    /\ SolverOff
    /\ GraphOff
    /\ UnitOff
    /\ cells = [c \in Workers |-> 0]
    /\ visible = [c \in Workers |-> 0]
    /\ total \in 0..MaxIncrements
    /\ load_idx = 0
    /\ sum = 0
    /\ counted = 0
    /\ mpc = "get"

\* Counter::increment by the worker with thread index w: one fetch_add.
CIncrement(w) ==
    /\ mpc /= "off"
    /\ sum_from(cells, 0) < total
    /\ cells' = [cells EXCEPT ![w] = @ + 1]
    /\ UNCHANGED <<visible, total, load_idx, sum, counted, mpc>>
    /\ UNCHANGED <<placementVars, brokenVars, solverVars, graphVars, unitVars>>

\* A later value of cell c becomes the one the reporter's loads return.
CPropagate(c, v) ==
    /\ mpc /= "off"
    /\ visible[c] < v
    /\ v <= cells[c]
    /\ visible' = [visible EXCEPT ![c] = v]
    /\ UNCHANGED <<cells, total, load_idx, sum, counted, mpc>>
    /\ UNCHANGED <<placementVars, brokenVars, solverVars, graphVars, unitVars>>

\* Counter::get: the load of the next cell
CLoad ==
    /\ mpc = "get"
    /\ load_idx < NumWorkers
    /\ sum' = add_load(sum, visible[load_idx])
    /\ load_idx' = load_idx + 1
    /\ UNCHANGED <<cells, visible, total, counted, mpc>>
    /\ UNCHANGED <<placementVars, brokenVars, solverVars, graphVars, unitVars>>

\* Counter::get returns: let counted = counter.get(), and the report
CGet ==
    /\ mpc = "get"
    /\ load_idx = NumWorkers
    /\ counted' = sum
    /\ mpc' = "check"
    /\ UNCHANGED <<cells, visible, total, load_idx, sum>>
    /\ UNCHANGED <<placementVars, brokenVars, solverVars, graphVars, unitVars>>

\* if counted == total as u64 { return; }
CCheck ==
    /\ mpc = "check"
    /\ mpc' = IF counted = total THEN "returned" ELSE "sleep"
    /\ UNCHANGED <<cells, visible, total, load_idx, sum, counted>>
    /\ UNCHANGED <<placementVars, brokenVars, solverVars, graphVars, unitVars>>

\* std::thread::sleep(..) and the next pass of the loop
CSleep ==
    /\ mpc = "sleep"
    /\ load_idx' = 0
    /\ sum' = 0
    /\ mpc' = "get"
    /\ UNCHANGED <<cells, visible, total, counted>>
    /\ UNCHANGED <<placementVars, brokenVars, solverVars, graphVars, unitVars>>

NextCounter ==
    \/ \E w \in Workers : CIncrement(w)
    \/ \E c \in Workers, v \in 1..(MaxIncrements + 1) : CPropagate(c, v)
    \/ CLoad
    \/ CGet
    \/ CCheck
    \/ CSleep

SpecCounter == InitCounter /\ [][NextCounter]_vars

\* The reporter thread is scheduled again and again, its sleep ends, and a
\* value stored to a cell becomes visible to it in finite time.  Nothing is
\* assumed of the workers.
SpecCounterLive ==
    /\ SpecCounter
    /\ WF_vars(CLoad)
    /\ WF_vars(CGet)
    /\ WF_vars(CCheck)
    /\ WF_vars(CSleep)
    /\ \A c \in Workers : WF_vars(\E v \in 1..(MaxIncrements + 1) : CPropagate(c, v))

\* C15: once the workers have made their N calls of increment and stopped,
\* the thread that keeps calling get receives N; and no get returns more
\* than the number of increments made so far.
C15_GetConverges ==
    /\ [](counted <= sum_from(cells, 0))
    /\ (sum_from(cells, 0) = total) ~> (counted = total)

\* The reporter has received the final count of increments, of which each
\* worker made some, and has returned.
C15_Witness ==
    /\ mpc = "returned"
    /\ counted = total
    /\ total >= 2
    /\ \A w \in Workers : cells[w] > 0

(***************************************************************************)
(* base64.rs: bit vectors are sequences of 0 and 1, index 0 first; a       *)
(* string is the sequence of its bytes.                                    *)
(***************************************************************************)
\* ENCODE_TABLE[bits] is ENCODE_TABLE[bits + 1] here.
ENCODE_TABLE ==
    << 65, 66, 67, 68, 69, 70, 71, 72, 73, 74, 75, 76, 77, 78, 79, 80,
       81, 82, 83, 84, 85, 86, 87, 88, 89, 90, 97, 98, 99, 100, 101, 102,
       103, 104, 105, 106, 107, 108, 109, 110, 111, 112, 113, 114, 115, 116, 117, 118,
       119, 120, 121, 122, 48, 49, 50, 51, 52, 53, 54, 55, 56, 57, 45, 95 >>

\* DECODE_TABLE[b] is DECODE_TABLE[b + 1] here.
DECODE_TABLE ==
    << 255, 255, 255, 255, 255, 255, 255, 255, 255, 255, 255, 255, 255, 255, 255, 255,
       255, 255, 255, 255, 255, 255, 255, 255, 255, 255, 255, 255, 255, 255, 255, 255,
       255, 255, 255, 255, 255, 255, 255, 255, 255, 255, 255, 255, 255, 62, 255, 255,
       52, 53, 54, 55, 56, 57, 58, 59, 60, 61, 255, 255, 255, 255, 255, 255,
       255, 0, 1, 2, 3, 4, 5, 6, 7, 8, 9, 10, 11, 12, 13, 14,
       15, 16, 17, 18, 19, 20, 21, 22, 23, 24, 25, 255, 255, 255, 255, 63,
       255, 26, 27, 28, 29, 30, 31, 32, 33, 34, 35, 36, 37, 38, 39, 40,
       41, 42, 43, 44, 45, 46, 47, 48, 49, 50, 51, 255, 255, 255, 255, 255,
       255, 255, 255, 255, 255, 255, 255, 255, 255, 255, 255, 255, 255, 255, 255, 255,
       255, 255, 255, 255, 255, 255, 255, 255, 255, 255, 255, 255, 255, 255, 255, 255,
       255, 255, 255, 255, 255, 255, 255, 255, 255, 255, 255, 255, 255, 255, 255, 255,
       255, 255, 255, 255, 255, 255, 255, 255, 255, 255, 255, 255, 255, 255, 255, 255,
       255, 255, 255, 255, 255, 255, 255, 255, 255, 255, 255, 255, 255, 255, 255, 255,
       255, 255, 255, 255, 255, 255, 255, 255, 255, 255, 255, 255, 255, 255, 255, 255,
       255, 255, 255, 255, 255, 255, 255, 255, 255, 255, 255, 255, 255, 255, 255, 255,
       255, 255, 255, 255, 255, 255, 255, 255, 255, 255, 255, 255, 255, 255, 255, 255 >>

\* b'.'
DOT == 46

\* slice.load_le::<usize>()
RECURSIVE load_le(_)
load_le(slice) == IF slice = <<>> THEN 0 ELSE Head(slice) + 2 * load_le(Tail(slice))

\* The first size bits of n, most significant first.
view_bits_msb(n, size) == [k \in 1..size |-> (n \div (2 ^ (size - k))) % 2]

\* n.view_bits::<Lsb0>()[..size]
view_bits(n, size) == [k \in 1..size |-> (n \div (2 ^ (k - 1))) % 2]

RECURSIVE base64_encode(_, _)
base64_encode(slice, into) ==
    IF Len(slice) >= 6
    THEN base64_encode(SubSeq(slice, 7, Len(slice)),
                       Append(into, ENCODE_TABLE[load_le(SubSeq(slice, 1, 6)) + 1]))
    ELSE IF Len(slice) > 0
    THEN into \o <<DOT, ENCODE_TABLE[load_le(slice)
                                     + (CASE Len(slice) = 5 -> 0
                                          [] Len(slice) = 4 -> 32
                                          [] Len(slice) = 3 -> 32 + 16
                                          [] Len(slice) = 2 -> 32 + 16 + 8
                                          [] Len(slice) = 1 -> 32 + 16 + 8 + 4) + 1]>>
    ELSE into

\* The match on tail that takes 62 and 63 for an empty tail.
decode_tail_lenient(tail) ==
    IF tail <= 31 THEN Some(view_bits(tail, 5))
    ELSE IF tail <= 47 THEN Some(view_bits(tail - 32, 4))
    ELSE IF tail <= 55 THEN Some(view_bits(tail - 48, 3))
    ELSE IF tail <= 59 THEN Some(view_bits(tail - 56, 2))
    ELSE IF tail <= 61 THEN Some(view_bits(tail - 60, 1))
    ELSE IF tail <= 63 THEN Some(<<>>)
    ELSE None

\* let (bits, size) = match tail { .. }, and the bits taken
decode_tail(tail) ==
    IF tail <= 31 THEN Some(view_bits(tail, 5))
    ELSE IF tail <= 47 THEN Some(view_bits(tail - 32, 4))
    ELSE IF tail <= 55 THEN Some(view_bits(tail - 48, 3))
    ELSE IF tail <= 59 THEN Some(view_bits(tail - 56, 2))
    ELSE IF tail <= 61 THEN Some(view_bits(tail - 60, 1))
    ELSE None

\* The loop of base64_decode from byte k on, v being the bits so far.
RECURSIVE decode_from(_, _, _)
decode_from(bytes, k, v) ==
    IF k > Len(bytes) THEN Some(v)
    ELSE IF bytes[k] = DOT
    THEN IF k + 1 > Len(bytes) THEN None
         ELSE IF k + 2 <= Len(bytes) THEN None
         ELSE IF decode_tail(DECODE_TABLE[bytes[k + 1] + 1]).result = "Some"
         THEN Some(v \o decode_tail(DECODE_TABLE[bytes[k + 1] + 1]).value)
         ELSE None
    ELSE IF DECODE_TABLE[bytes[k] + 1] = 255 THEN None
    ELSE decode_from(bytes, k + 1, v \o view_bits(DECODE_TABLE[bytes[k] + 1], 6))

base64_decode(encoded) == decode_from(encoded, 1, <<>>)

(***************************************************************************)
(* gameplay.rs: Piece::unpack                                              *)
(***************************************************************************)
\* The fields that unpack reads from val; a field the matches do not cover
\* is unreachable!().
Piece_unpack(val) ==
    IF (val \div 4096) % 16 > 3 \/ (val \div 256) % 16 > 6 THEN Panic
    ELSE Some(MkPiece((val \div 256) % 16, (val \div 16) % 16, (val % 16) \div 16,
                      (val \div 4096) % 16))

(***************************************************************************)
(* Single calls of the pure functions: QueueState::take,                   *)
(* Board::has_isolated_cell, base64_encode, base64_decode, Piece::pack and *)
(* Piece::unpack.  call names the function about to run or just run, input *)
(* its argument, output its result.                                        *)
(***************************************************************************)
UnitBags ==
    << Bag_new(<<I, O, I, T>>, 2), Bag_new(<<S, S, S>>, 3),
       Bag_new(<<T, T, L, L, T>>, 3), Bag_new(<<I, J, L, O, S, T, Z>>, 7) >>

\* Every state over the bits of the bag and the hold bits.
TakeInputs ==
    UNION {{[state |-> q \cup h, bag |-> UnitBags[n], shape |-> s] :
               q \in SUBSET UnitBags[n].full, h \in SUBSET (13..15), s \in Shapes} :
           n \in 1..Len(UnitBags)}

\* The columns whose cells take every pattern; the other columns are all
\* empty or all filled.
IsoWindows == {0..2, 3..5, 7..9}

WindowCells(cols) == {c + 10 * r : c \in cols, r \in 0..3}

IsoBoards ==
    UNION {{x \cup rest : x \in SUBSET WindowCells(cols),
                          rest \in {{}, BOARD_MASK \ WindowCells(cols)}} :
           cols \in IsoWindows}

MaxBits == 13

BitVecs == UNION {[1..n -> {0, 1}] : n \in 0..MaxBits}

MaxChars == 3

\* 'A', 'g', '9', '-', '_', '.', '=', '~', '+' and the byte 200
SampleBytes == {65, 103, 57, 45, 95, 46, 61, 126, 43, 200}

Strings == UNION {[1..n -> SampleBytes] : n \in 0..MaxChars}

\* Every shape and orientation, 0 <= col <= 9, 0 <= row <= 5.
Pieces ==
    {MkPiece(s, c, r, o) : s \in Shapes, c \in 0..9, r \in 0..5, o \in Orientations}

InitUnit ==
    /\ PlacementsOff
    /\ BrokenOff
    /\ SolverOff
    /\ GraphOff
    /\ CounterOff
    /\ MachineOff
    /\ StageOff
    /\ \/ call = "take" /\ input \in TakeInputs
       \/ call = "has_isolated_cell" /\ input \in IsoBoards
       \/ call = "base64_encode" /\ input \in BitVecs
       \/ call = "base64_decode" /\ input \in Strings
       \/ call = "pack" /\ input \in Pieces
    /\ output = <<>>

UnitFrame ==
    UNCHANGED <<placementVars, brokenVars, solverVars, graphVars, counterVars, machineVars,
                stageVars>>

UTake ==
    /\ call = "take"
    /\ output' = QueueState_take(input.state, input.bag, input.shape)
    /\ call' = "took"
    /\ UNCHANGED input
    /\ UnitFrame

UIsolated ==
    /\ call = "has_isolated_cell"
    /\ output' = has_isolated_cell(input)
    /\ call' = "isolated_checked"
    /\ UNCHANGED input
    /\ UnitFrame

UEncode ==
    /\ call = "base64_encode"
    /\ output' = base64_encode(input, <<>>)
    /\ call' = "encoded"
    /\ UNCHANGED input
    /\ UnitFrame

\* base64_decode of a given string, or of the string just encoded.
UDecode ==
    /\ call \in {"base64_decode", "encoded"}
    /\ output' = base64_decode(IF call = "encoded" THEN output ELSE input)
    /\ call' = IF call = "encoded" THEN "round_trip" ELSE "decoded"
    /\ UNCHANGED input
    /\ UnitFrame

UPack ==
    /\ call = "pack"
    /\ output' = Piece_pack(input)
    /\ call' = "packed"
    /\ UNCHANGED input
    /\ UnitFrame

\* unpack of the number just packed; with debug assertions on, a piece out
\* of bounds panics instead of being returned.
UUnpack ==
    /\ call = "packed"
    /\ \E debug \in BOOLEAN :
          output' = IF Piece_unpack(output).result = "Some" /\ debug
                       /\ ~in_bounds(Piece_unpack(output).value)
                    THEN Panic
                    ELSE Piece_unpack(output)
    /\ call' = "unpacked"
    /\ UNCHANGED input
    /\ UnitFrame

NextUnit ==
    \/ UTake
    \/ UIsolated
    \/ UEncode
    \/ UDecode
    \/ UPack
    \/ UUnpack

SpecUnit == InitUnit /\ [][NextUnit]_vars

\* C16: take returns None when no bit of bag.masks[shape] is set in the
\* state; otherwise it returns the state with exactly the lowest such bit
\* cleared and every other bit, the three hold bits included, unchanged.
C16_TakeClearsLowestBit ==
    call = "took" =>
        IF input.state \cap input.bag.masks[input.shape] = {}
        THEN output.result = "None"
        ELSE /\ output.result = "Some"
             /\ \E low \in input.state \cap input.bag.masks[input.shape] :
                   /\ \A b \in input.state \cap input.bag.masks[input.shape] : low <= b
                   /\ output.value = input.state \ {low}

\* A take from a state that holds a shape and still has two copies of the
\* taken shape, the lower of which is not the lowest bit of the state.
C16_Witness ==
    /\ call = "took"
    /\ output.result = "Some"
    /\ Cardinality(input.state \cap input.bag.masks[input.shape]) >= 2
    /\ input.state \cap (13..15) /= {}
    /\ \E b \in input.state : \A m \in input.bag.masks[input.shape] : b < m

\* The cell of column c and row r of board b is filled.
filled(b, c, r) == (c + 10 * r) \in b

\* Every empty cell of column c has a filled cell or a wall on its left and
\* on its right.
ColumnBounded(b, c) ==
    \A r \in 0..3 :
        filled(b, c, r) \/ /\ (c = 0 \/ filled(b, c - 1, r))
                           /\ (c = 9 \/ filled(b, c + 1, r))

\* C17 as stated: has_isolated_cell returns true iff some column has an
\* empty cell and all its empty cells are bounded on both sides.
C17_IsolatedIffBoundedColumn ==
    call = "isolated_checked" =>
        (output <=> \E c \in 0..9 : /\ \E r \in 0..3 : ~filled(input, c, r)
                                    /\ ColumnBounded(input, c))

\* C17: has_isolated_cell returns true iff some column has an empty cell and
\* a filled cell and all its empty cells are bounded on both sides.
C17_IsolatedIffBoundedMixedColumn ==
    call = "isolated_checked" =>
        (output <=> \E c \in 0..9 : /\ \E r \in 0..3 : ~filled(input, c, r)
                                    /\ \E r \in 0..3 : filled(input, c, r)
                                    /\ ColumnBounded(input, c))

\* A board found free of isolated cells although one of its columns is all
\* empty and bounded on both sides.
C17_Witness ==
    /\ call = "isolated_checked"
    /\ ~output
    /\ \E c \in 0..9 : /\ \A r \in 0..3 : ~filled(input, c, r)
                       /\ ColumnBounded(input, c)

\* A board found to have an isolated cell in a column between two others.
C17_WitnessIsolated ==
    /\ call = "isolated_checked"
    /\ output
    /\ \E c \in 1..8 : /\ \E r \in 0..3 : ~filled(input, c, r)
                       /\ \E r \in 0..3 : filled(input, c, r)
                       /\ ColumnBounded(input, c)
    /\ \A c \in {0, 9} : ~ColumnBounded(input, c) \/ \A r \in 0..3 : ~filled(input, c, r)

\* C18: decoding the encoding of a bit vector gives Some of the same vector:
\* the same length and the same bits.
C18_RoundTrip ==
    call = "round_trip" =>
        /\ output.result = "Some"
        /\ Len(output.value) = Len(input)
        /\ \A k \in 1..Len(input) : output.value[k] = input[k]

\* A round trip of a vector of two or more sextets and a tail, with both 0
\* and 1 in the tail.
C18_Witness ==
    /\ call = "round_trip"
    /\ output.result = "Some"
    /\ output.value = input
    /\ Len(input) >= 12
    /\ \E k \in 13..Len(input) : input[k] = 1
    /\ \E k \in 1..12 : input[k] = 1
    /\ \E k \in 1..12 : input[k] = 0

\* A - Z, a - z, 0 - 9, '-' and '_'
Alphabet == (65..90) \cup (97..122) \cup (48..57) \cup {45, 95}

\* The characters of value 62 and 63: '-' and '_'.
Value62or63 == {45, 95}

\* C19: base64_decode returns None for an input with a character outside the
\* alphabet and '.', with a '.' not followed by exactly one further
\* character, or with a character after '.' that has value 62 or 63 or is
\* not in the alphabet.
C19_DecodeRejects ==
    call = "decoded" =>
        ((\/ \E k \in 1..Len(input) : input[k] \notin Alphabet \cup {DOT}
          \/ \E k \in 1..Len(input) : input[k] = DOT /\ k + 1 /= Len(input)
          \/ \E k \in 1..(Len(input) - 1) :
                /\ input[k] = DOT
                /\ input[k + 1] \in Value62or63 \cup (0..255 \ Alphabet))
         => output.result = "None")

\* A string of alphabet characters, a '.' and one character of value 62 or
\* 63 was rejected, and so was a string with a character after the tail.
C19_Witness ==
    /\ call = "decoded"
    /\ output.result = "None"
    /\ Len(input) = 3
    /\ input[1] \in Alphabet
    /\ input[2] = DOT
    /\ input[3] \in Value62or63

\* A '.' followed by two characters of the alphabet was rejected.
C19_WitnessLongTail ==
    /\ call = "decoded"
    /\ output.result = "None"
    /\ Len(input) = 3
    /\ input[1] = DOT
    /\ input[2] \in Alphabet \ Value62or63
    /\ input[3] \in Alphabet \ Value62or63

\* A string with a valid tail was decoded.
C19_WitnessAccepted ==
    /\ call = "decoded"
    /\ output.result = "Some"
    /\ Len(input) = 3
    /\ input[2] = DOT
    /\ Len(output.value) = 7

\* C20: for every piece of any shape and orientation with 0 <= col <= 9 and
\* 0 <= row <= 5, pack is below 0x4000 and unpack of the packed number is
\* the piece: shape, orientation, col and row are all recovered.
C20_PackUnpackRoundTrip ==
    /\ call = "packed" => output < 16384
    /\ call = "unpacked" => output.result = "Some" /\ output.value = input

(***************************************************************************)
(* Single calls on boards of recorded games: the two iterations of a       *)
(* Placements value.  The variables are those of the single calls above.   *)
(***************************************************************************)
\* <<game, pieces placed>> of the boards searched
DrainStarts == {<<1, 0>>, <<6, 3>>, <<4, 4>>, <<3, 5>>}

DrainInputs ==
    {Placements_place(board_after(gt[1], gt[2]), s, ph) :
        gt \in DrainStarts, s \in Shapes, ph \in PhysicsSet}

\* The rows that the boards handed to Piece::place are made of.
RowPatterns == {{}, 0..9, 1..9, (0..3) \cup (8..9)}

PlaceBoards == {OfRows(<<r0, r1, r2, r3>>) : r0, r1, r2, r3 \in RowPatterns}

InitCalls ==
    /\ PlacementsOff
    /\ BrokenOff
    /\ SolverOff
    /\ GraphOff
    /\ CounterOff
    /\ MachineOff
    /\ StageOff
    /\ \/ call = "next" /\ input \in DrainInputs
       \/ /\ call = "place"
          /\ \E b \in PlaceBoards, p \in Pieces :
                /\ can_place(p, b)
                /\ input = [board |-> b, piece |-> p]
    /\ output = <<>>

\* A clone of the Placements drained with next; len() of the value.
CDrain ==
    /\ call = "next"
    /\ output' = [forward |-> Placements_collect(input), len |-> Placements_len(input)]
    /\ call' = "drained"
    /\ UNCHANGED input
    /\ UnitFrame

\* A clone of the Placements drained with next_back, in either build.
CDrainBack ==
    /\ call = "drained"
    /\ \E debug \in BOOLEAN :
          output' = [forward |-> output.forward, len |-> output.len,
                     backward |-> drain_back(input, <<>>, debug)]
    /\ call' = "drained_back"
    /\ UNCHANGED input
    /\ UnitFrame

\* piece.place(board), in either build
CPlace ==
    /\ call = "place"
    /\ \E debug \in BOOLEAN : output' = place_in_build(input.piece, input.board, debug)
    /\ call' = "placed"
    /\ UNCHANGED input
    /\ UnitFrame

NextCalls ==
    \/ CDrain
    \/ CDrainBack
    \/ CPlace

SpecCalls == InitCalls /\ [][NextCalls]_vars

\* C21: draining a Placements value with next_back yields exactly the items
\* that draining it with next yields, in the reverse order, and either way
\* the number of items is len().
C21_BackwardIsForwardReversed ==
    /\ call = "drained" => Len(output.forward) = output.len
    /\ call = "drained_back" =>
          /\ ~output.backward.panicked
          /\ Len(output.backward.items) = output.len
          /\ \A k \in 1..output.len :
                output.backward.items[k] = output.forward[output.len + 1 - k]

(***************************************************************************)
(* Placements::place step by step: the while loop over step(North) ..      *)
(* step(West), each flood_fill pass a step of its own.                     *)
(***************************************************************************)
MachineBoards == {board_after(gt[1], gt[2]) : gt \in DrainStarts}

\* let viable = [..]; let reachable = [..]; PlacementMachine { .. }.  For O
\* the one viable set of the shortcut stands in all four places.
new_machine(b, s, ph) ==
    [viable |-> [o \in Orientations |->
                    Collision_viable(COLLISION[s][IF s = O THEN 0 ELSE o], b)],
     reachable |-> [o \in Orientations |->
                       SPAWN \cap Collision_viable(COLLISION[s][IF s = O THEN 0 ELSE o], b)],
     dirty |-> [o \in Orientations |-> s /= O],
     shape |-> s,
     physics |-> ph]

InitMachine ==
    /\ PlacementsOff
    /\ BrokenOff
    /\ SolverOff
    /\ GraphOff
    /\ CounterOff
    /\ StageOff
    /\ call = "off"
    /\ input = <<>>
    /\ output = <<>>
    /\ \E b \in MachineBoards, s \in Shapes, ph \in PhysicsSet :
          /\ pm = new_machine(b, s, ph)
          /\ flood = IF s = O THEN pm.reachable[North] ELSE {}
          /\ ppc = IF s = O THEN "flood_fill" ELSE "while"
    /\ visiting = North

MachineFrame ==
    UNCHANGED <<placementVars, brokenVars, solverVars, graphVars, counterVars,
                call, input, output, stageVars>>

\* while machine.any_dirty()
MWhile ==
    /\ ppc = "while"
    /\ ppc' = IF any_dirty(pm) THEN "step" ELSE "done"
    /\ visiting' = North
    /\ UNCHANGED <<pm, flood>>
    /\ MachineFrame

\* machine.step(o): if self.dirty[o_0], up to the call of flood_fill
MStep ==
    /\ ppc = "step"
    /\ IF pm.dirty[visiting]
       THEN /\ flood' = pm.reachable[visiting]
            /\ ppc' = "flood_fill"
            /\ UNCHANGED visiting
       ELSE /\ ppc' = IF visiting = West THEN "while" ELSE "step"
            /\ visiting' = (visiting + 1) % 4
            /\ UNCHANGED flood
    /\ UNCHANGED pm
    /\ MachineFrame

\* One pass of the loop of flood_fill; the pass that changes nothing returns.
MFloodFill ==
    /\ ppc = "flood_fill"
    /\ IF flood /= or_right(or_left(or_down(flood, pm.viable[visiting]), pm.viable[visiting]),
                            pm.viable[visiting])
       THEN /\ flood' = or_right(or_left(or_down(flood, pm.viable[visiting]),
                                         pm.viable[visiting]), pm.viable[visiting])
            /\ UNCHANGED <<pm, ppc>>
       ELSE /\ pm' = IF pm.shape = O
                     THEN [pm EXCEPT !.reachable = [o \in Orientations |-> flood]]
                     ELSE pm
            /\ ppc' = IF pm.shape = O THEN "done" ELSE "kicks"
            /\ UNCHANGED flood
    /\ UNCHANGED visiting
    /\ MachineFrame

\* Where the loop goes after the kicks of a step.
MKicksControl ==
    /\ ppc = "kicks"
    /\ ppc' = IF visiting = West THEN "while" ELSE "step"
    /\ visiting' = (visiting + 1) % 4

\* The rest of step: the kicks into the three other orientations.
MKicks ==
    /\ MKicksControl
    /\ pm' = step_kicks(pm, visiting, flood, KicksFor(pm.physics, pm.shape))
    /\ UNCHANGED flood
    /\ MachineFrame

NextMachine ==
    \/ MWhile
    \/ MStep
    \/ MFloodFill
    \/ MKicks

SpecMachine == InitMachine /\ [][NextMachine]_vars

\* The loop is one sequential computation: it takes its next step.  MKicks
\* is enabled exactly when its control part is, and a step of the control part
\* is a step of MKicks, every step being one of NextMachine.
SpecMachineLive ==
    /\ SpecMachine
    /\ WF_vars(MWhile \/ MStep \/ MFloodFill)
    /\ WF_<<ppc, visiting>>(MKicksControl)

\* C22: the loop of Placements::place and every flood_fill in it terminate;
\* the reachable sets and the set a flood_fill works on only grow and stay
\* within the viable sets.
C22_PlaceTerminates ==
    /\ <>(ppc = "done")
    /\ [](/\ \A o \in Orientations : pm.reachable[o] \subseteq pm.viable[o]
          /\ ppc = "flood_fill" => flood \subseteq pm.viable[visiting])
    /\ [][/\ \A o \in Orientations : pm.reachable[o] \subseteq pm'.reachable[o]
          /\ (ppc = "flood_fill" /\ ppc' = "flood_fill") => flood \subseteq flood']_vars

\* A search has ended in which kicks reached positions on the board that the
\* flood fill from the spawn rows does not reach.
C22_Witness ==
    /\ ppc = "done"
    /\ pm.shape /= O
    /\ \E o \in Orientations :
          (pm.reachable[o] \cap (0..39)) \ flood_fill(SPAWN \cap pm.viable[o], pm.viable[o]) /= {}

\* C23: when the loop of Placements::place ends, every reachable set lies in
\* its viable set with bits 60..63 clear, is closed under one-cell moves
\* down, left and right into viable positions, and every position that a
\* cw, ccw or half rotation with its kicks leads to from it is in the
\* reachable set of the target orientation.
C23_ReachableClosed ==
    ppc = "done" =>
        \A o \in Orientations :
            /\ pm.reachable[o] \subseteq pm.viable[o]
            /\ pm.reachable[o] \cap (60..63) = {}
            /\ \A p \in pm.reachable[o] :
                  /\ (p >= 10 /\ (p - 10) \in pm.viable[o]) => (p - 10) \in pm.reachable[o]
                  /\ (p % 10 > 0 /\ (p - 1) \in pm.viable[o]) => (p - 1) \in pm.reachable[o]
                  /\ (p % 10 < 9 /\ (p + 1) \in pm.viable[o]) => (p + 1) \in pm.reachable[o]
            /\ pm.shape /= O =>
                  /\ Kicks_cw(KicksFor(pm.physics, pm.shape), o, pm.reachable[o],
                              pm.viable[Orientation_cw(o)])
                        \subseteq pm.reachable[Orientation_cw(o)]
                  /\ Kicks_ccw(KicksFor(pm.physics, pm.shape), o, pm.reachable[o],
                               pm.viable[Orientation_ccw(o)])
                        \subseteq pm.reachable[Orientation_ccw(o)]
                  /\ Kicks_half(KicksFor(pm.physics, pm.shape), o, pm.reachable[o],
                                pm.viable[Orientation_half(o)])
                        \subseteq pm.reachable[Orientation_half(o)]

\* A finished search with half rotations on a board with filled cells, in
\* which some orientation holds a position that no move from the spawn rows
\* reaches without a rotation.
C23_Witness ==
    /\ ppc = "done"
    /\ pm.shape \notin {O, I}
    /\ pm.physics = "Tetrio"
    /\ pm.viable[North] /= Collision_viable(COLLISION[pm.shape][North], {})
    /\ \E o \in Orientations :
          /\ Kicks_half(KicksFor(pm.physics, pm.shape), o, pm.reachable[o],
                        pm.viable[Orientation_half(o)]) /= {}
          /\ pm.reachable[o] \cap (0..39)
                /= flood_fill(SPAWN \cap pm.viable[o], pm.viable[o]) \cap (0..39)

\* The cells of row i of board x, as columns.
RowOf(x, i) == {c \in 0..9 : (c + 10 * i) \in x}

\* The rows of x that are not completely filled, bottom to top.
OpenRowsOf(x) == SelectSeq([i \in 1..4 |-> RowOf(x, i - 1)], LAMBDA r : r /= 0..9)

\* new is old with the piece added: below 2^40, four more filled cells, the
\* completely filled rows one block at the bottom and the other rows above
\* them in their original order.
PlacedInOrder(old, piece, new) ==
    /\ new \subseteq 0..39
    /\ Cardinality(new) = Cardinality(old) + 4
    /\ \E k \in 0..4 : /\ \A i \in 0..(k - 1) : RowOf(new, i) = 0..9
                       /\ \A i \in k..3 : RowOf(new, i) /= 0..9
                       /\ 4 - k = Len(OpenRowsOf(old \cup as_bits(piece)))
    /\ OpenRowsOf(new) = OpenRowsOf(old \cup as_bits(piece))

\* C24 as stated: for every board and every piece with can_place, place
\* gives a board below 2^40 with four more cells, its full rows one block
\* at the bottom and the other rows in their original order.
C24_PlaceKeepsRowOrder ==
    call = "placed" =>
        /\ output.result = "placed"
        /\ PlacedInOrder(input.board, input.piece, output.board)

\* C24: the same for every piece with can_place that overlaps no filled
\* cell of the board.
C24_PlaceKeepsRowOrderNoOverlap ==
    (call = "placed" /\ ~collides_in(input.piece, input.board)) =>
        /\ output.result = "placed"
        /\ PlacedInOrder(input.board, input.piece, output.board)

\* A place that completed a row above a row that stays open, on a board
\* with a full row already.
C24_Witness ==
    /\ call = "placed"
    /\ ~collides_in(input.piece, input.board)
    /\ output.result = "placed"
    /\ \E i \in 0..3 : RowOf(input.board, i) = 0..9
    /\ \E i \in 1..3 : /\ RowOf(input.board \cup as_bits(input.piece), i) = 0..9
                       /\ RowOf(input.board, i) /= 0..9
                       /\ RowOf(input.board \cup as_bits(input.piece), i - 1) /= 0..9

(***************************************************************************)
(* BrokenBoard::placeable on valid boards: a garbage board, or a garbage   *)
(* board with one piece placed.  The pieces asked about are those that a   *)
(* place call on such a board records, and those pieces with one field     *)
(* changed.  The caller places the piece that placeable returned.          *)
(***************************************************************************)
PlaceableLayouts == {Garbages[1], Garbages[2], Garbages[5]}

LegalPlaces(bb) ==
    {p \in AllPieces : in_bounds(p) /\ can_place(p, bb.board) /\ ~Overlaps(p, bb.board)}

Grown(bbs) == bbs \cup UNION {{BrokenBoard_place(bb, p) : p \in LegalPlaces(bb)} : bb \in bbs}

PlaceableBoards == Grown({from_garbage(g) : g \in PlaceableLayouts})

ProducedPieces ==
    UNION {{bb.pieces[k] : k \in 1..Len(bb.pieces)} : bb \in Grown(PlaceableBoards)}

ChangedPieces(bp) ==
    {[bp EXCEPT !.orientation = o] : o \in Orientations}
        \cup {[bp EXCEPT !.rows = r] : r \in SUBSET (0..3)}
        \cup {[bp EXCEPT !.low_mino = l] : l \in {bp.low_mino - 1, bp.low_mino + 1,
                                                  bp.low_mino + 10} \cap (0..39)}

InitPlaceable ==
    /\ PlacementsOff
    /\ BrokenOff
    /\ SolverOff
    /\ GraphOff
    /\ CounterOff
    /\ MachineOff
    /\ StageOff
    /\ call = "placeable"
    /\ \E bb \in PlaceableBoards, bp \in ProducedPieces :
          \E piece \in ChangedPieces(bp) : input = [bb |-> bb, piece |-> piece]
    /\ output = <<>>

\* bb.placeable(piece), in either build
BPlaceable ==
    /\ call = "placeable"
    /\ \E debug \in BOOLEAN :
          output' = [returned |-> BrokenBoard_placeable(input.bb, input.piece, debug),
                     after |-> input.bb]
    /\ call' = "placeable_done"
    /\ UNCHANGED input
    /\ UnitFrame

\* bb.place(p) with the piece that placeable returned
BPlaceBack ==
    /\ call = "placeable_done"
    /\ output.returned.result = "Some"
    /\ output' = [returned |-> output.returned,
                  after |-> BrokenBoard_place(input.bb, output.returned.piece)]
    /\ call' = "placed_back"
    /\ UNCHANGED input
    /\ UnitFrame

NextPlaceable ==
    \/ BPlaceable
    \/ BPlaceBack

SpecPlaceable == InitPlaceable /\ [][NextPlaceable]_vars

\* The rows between the lowest and the highest row of a broken piece that are
\* none of its rows.
SplittingRows(bp) ==
    {r \in 0..7 : r \notin bp.rows /\ (\E a \in bp.rows : a < r) /\ (\E a \in bp.rows : r < a)}

WellFormedPiece(bp) ==
    LET shape_bits == PIECE_SHAPES[bp.shape + 1][bp.orientation + 1]
        col == (bp.low_mino % 10) - trailing_zeros(shape_bits)
    IN  /\ bp.orientation = Orientation_canonical(bp.orientation, bp.shape)
        /\ Cardinality(bp.rows) = (highest_bit(shape_bits) \div 10) + 1
        /\ bp.low_mino \div 10 = trailing_zeros(bp.rows)
        /\ col >= 0
        /\ col <= PIECE_MAX_COLS[bp.shape + 1][bp.orientation + 1]

\* The precondition that placeable asserts: none of the rows of the piece
\* is a cleared row of the board.
Compatible(bb, bp) == (bb.cleared_rows \cap bp.rows) = {}

SplitAt(b, c) == check_col(b, Shl(COL_0, c), UNION {Shl(COL_0, k) : k \in 0..c})

\* C26: a board on which, for c = 0 or c = 8, every row has a filled cell in
\* column c or c + 1 and the number of filled cells in columns 0..c is not a
\* multiple of four has an isolated cell.
C26_EdgeSplitIsIsolated ==
    call = "isolated_checked" =>
        \A c \in {0, 8} : SplitAt(input, c) => output = TRUE

\* C26 for the boards whose number of filled cells is a multiple of four.
C26_EdgeSplitIsIsolatedOnWholePieces ==
    (call = "isolated_checked" /\ count_ones(input) % 4 = 0) =>
        \A c \in {0, 8} : SplitAt(input, c) => output = TRUE

\* A board of a multiple of four filled cells with a split at columns 8 and
\* 9 that leaves an odd number of cells on its left, no split at columns
\* 1..7 being imbalanced; has_isolated_cell returned true.
C26_Witness ==
    /\ call = "isolated_checked"
    /\ count_ones(input) % 4 = 0
    /\ SplitAt(input, 8)
    /\ ~has_imbalanced_split(input)
    /\ output = TRUE

(***************************************************************************)
(* The solutions of a call of compute, found without scan and cull: every  *)
(* way of placing the pieces that the queue allows, one path at a time,    *)
(* each path with its own queue state, a board being dropped only when the *)
(* list of legal boards does not hold it.                                  *)
(***************************************************************************)
\* The boards one piece after bb, with the queue state q2 that the piece of
\* shape s leaves.
reach_placed(bb, s, q2, legal, ph) ==
    {<<BrokenBoard_place(bb, it[1]), q2>> :
        it \in {x \in canonical_placements(bb.board, s, ph) : admitted(legal, x[2])}}

reach_shape(bb, s, new_queues, legal, ph) ==
    IF new_queues = {} THEN {}
    ELSE UNION {reach_placed(bb, s, q2, legal, ph) : q2 \in new_queues}

reach_step(pairs, bag, i, hold_allowed, legal, ph) ==
    UNION {reach_shape(e[1][1], e[2], Bag_take(bag, {e[1][2]}, e[2], i = 0, hold_allowed),
                       legal, ph)
           : e \in pairs \X Shapes}

RECURSIVE reach_loop(_, _, _, _, _, _)
reach_loop(pairs, k, bs, hold_allowed, legal, ph) ==
    IF k > Len(stage_loop(bs)) THEN pairs
    ELSE reach_loop(reach_step(pairs, bs[stage_loop(bs)[k][1]], stage_loop(bs)[k][2],
                               hold_allowed, legal, ph),
                    k + 1, bs, hold_allowed, legal, ph)

\* The held piece of each path placed.
reach_last(pairs, legal, ph) ==
    UNION {{pr[1] : pr \in reach_placed(e[1], QueueState_hold(e[2]), {}, legal, ph)}
           : e \in {x \in pairs : QueueState_hold(x[2]) \in Shapes}}

reach_end(pairs, last, legal, ph) ==
    IF last THEN reach_last(pairs, legal, ph) ELSE {pr[1] : pr \in pairs}

ReachableSolutions ==
    reach_end(reach_loop({<<start, q>> : q \in Bag_init_hold(bags[1])}, 1, bags, can_hold,
                         legal_boards, solver_physics),
              count_ones(start.board) + 4 * Len(flat_map(bags, 1)) <= 40,
              legal_boards, solver_physics)

\* C27: for a non-empty list of bags the boards that the place pass returns,
\* filtered by the culled set, are exactly the boards reached by placing the
\* pieces that the queue allows, one after the other, every board on the way
\* passing the test against the legal boards and no other.
C27_CullingLosesNoSolution ==
    /\ spc = "placed" => DOMAIN place_prev = ReachableSolutions
    /\ (spc = "done" /\ bags /= <<>>) => Items(solutions) = ReachableSolutions

\* A finished call of three or more stages whose scan found boards that
\* cull dropped, and that has solutions.
C27_Witness ==
    /\ spc = "done"
    /\ Len(scanned) >= 3
    /\ solutions /= <<>>
    /\ \E k \in 2..Len(scanned) : StageKeys(k) \ culled /= {}

(***************************************************************************)
(* compute on lists of bags as Bag::new accepts them: a count of 0, a      *)
(* count below the number of shapes, shapes held twice.                    *)
(***************************************************************************)
BagLists ==
    { <<Bag_new(<<I, O, T>>, 2)>>,
      <<Bag_new(<<O, O, I>>, 3)>>,
      <<Bag_new(<<L, J>>, 1), Bag_new(<<O, I>>, 1)>>,
      <<Bag_new(<<O>>, 1), Bag_new(<<I, T>>, 0), Bag_new(<<I, O>>, 1)>>,
      <<Bag_new(<<I, O>>, 2), Bag_new(<<T>>, 0)>>,
      <<Bag_new(<<I>>, 0), Bag_new(<<O>>, 1)>>,
      <<Bag_new(<<I, O>>, 0)>> }

\* The start boards: eight free cells, and twelve.
BagGarbages == {OfRows(<<4..9, 2..9, 2..9, 0..9>>), OfRows(<<3..9, 3..9, 3..9, 3..9>>)}

InitBags ==
    /\ OtherOff
    /\ PlacementsOff
    /\ BrokenOff
    /\ \E g \in BagGarbages : start = from_garbage(g)
    /\ bags \in BagLists
    /\ legal_boards = {}
    /\ can_hold \in BOOLEAN
    /\ solver_physics \in PhysicsSet
    /\ place_last = FALSE
    /\ stage = 1
    /\ scanned = <<>>
    /\ scan_prev = <<>>
    /\ culled = {}
    /\ place_prev = <<>>
    /\ solutions = <<>>
    /\ spc = "start"
    /\ todo = {}
    /\ next_map = <<>>
    /\ drained = <<>>

SpecBags == InitBags /\ [][NextSolver]_vars

\* The number of pieces of each shape among the pieces of a board.
ShapesOf(bb) ==
    [s \in Shapes |-> Cardinality({k \in 1..Len(bb.pieces) : bb.pieces[k].shape = s})]

\* The multisets of shapes of counts[k] slots drawn from each bag k on.
RECURSIVE DrawnFrom(_, _, _)
DrawnFrom(bs, k, counts) ==
    IF k > Len(bs) THEN {[s \in Shapes |-> 0]}
    ELSE {[s \in Shapes |-> Cardinality(sub \cap bs[k].masks[s]) + rest[s]] :
             sub \in {x \in SUBSET bs[k].full : Cardinality(x) = counts[k]},
             rest \in DrawnFrom(bs, k + 1, counts)}

\* The first n draws of a queue: count draws from each bag in turn.
RECURSIVE drawn_before(_, _)
drawn_before(bs, k) == IF k = 1 THEN 0 ELSE drawn_before(bs, k - 1) + bs[k - 1].count

PrefixCounts(bs, n) ==
    [k \in 1..Len(bs) |->
        LET left == n - drawn_before(bs, k)
        IN  IF left <= 0 THEN 0 ELSE Min(left, bs[k].count)]

AllCounts(bs) == [k \in 1..Len(bs) |-> bs[k].count]

WithShape(ms, h) == [s \in Shapes |-> IF s = h THEN ms[s] + 1 ELSE ms[s]]

\* C28: the shapes of the pieces of a solution are count shapes drawn from
\* each bag when the queue fills the board; when it does not, they are so
\* together with one shape that is left in hold; without hold the pieces
\* placed after each stage are the first draws of the queue.
C28_SolutionsAreDrawnFromBags ==
    /\ (spc = "placed" /\ place_last) =>
          \A bb \in DOMAIN place_prev : ShapesOf(bb) \in DrawnFrom(bags, 1, AllCounts(bags))
    /\ (spc = "placed" /\ ~place_last) =>
          \A bb \in DOMAIN place_prev :
             /\ place_prev[bb] /= {}
             /\ \A q \in place_prev[bb] :
                   /\ QueueState_hold(q) \in Shapes
                   /\ WithShape(ShapesOf(bb), QueueState_hold(q))
                         \in DrawnFrom(bags, 1, AllCounts(bags))
    /\ (spc = "place" /\ ~can_hold) =>
          \A bb \in DOMAIN place_prev :
             ShapesOf(bb) \in DrawnFrom(bags, 1, PrefixCounts(bags, stage - 1))

(***************************************************************************)
(* BrokenBoard::decode handed the encoding of a board of two pieces, as    *)
(* encode writes it or with its 15-bit piece blocks in the other order.    *)
(***************************************************************************)
Reverse(seq) == [k \in 1..Len(seq) |-> seq[Len(seq) + 1 - k]]

ReorderedLayouts == {Garbages[1], Garbages[3], Garbages[4]}

InitReordered ==
    /\ OtherOff
    /\ PlacementsOff
    /\ SolverOff
    /\ \E bb \in Grown(Grown({from_garbage(g) : g \in ReorderedLayouts})) :
          /\ Len(bb.pieces) = 2
          /\ bbA = bb
          /\ bv \in {BrokenBoard_encode(bb),
                     BrokenBoard_encode([bb EXCEPT !.pieces = Reverse(bb.pieces)])}
    /\ layoutA = {}
    /\ seqA = <<>>
    /\ clean = TRUE
    /\ bbB = BrokenBoard_empty
    /\ layoutB = {}
    /\ seqB = <<>>
    /\ decoded = None
    /\ bpc = "encoded"

SpecReordered == InitReordered /\ [][Decode]_vars

\* C29: the pieces of a board that decode returns are in ascending order,
\* and a decoded board that holds the pieces of a board built by place, on
\* the same cells, is equal to it.
C29_DecodedPiecesSorted ==
    (bpc = "decoded" /\ decoded.result = "Some") =>
        /\ \A k \in 1..(Len(decoded.value.pieces) - 1) :
              BrokenPiece_lt(decoded.value.pieces[k], decoded.value.pieces[k + 1])
        /\ (/\ Items(decoded.value.pieces) = Items(bbA.pieces)
            /\ decoded.value.board = bbA.board
            /\ decoded.value.cleared_rows = bbA.cleared_rows) => decoded.value = bbA

(***************************************************************************)
(* One pass of the stage loop of boardgraph::compute with its threads: the *)
(* rayon workers that run the closure of for_each, locking the shard of    *)
(* each new board, and the thread that reports the counter.                *)
(***************************************************************************)
MaxStageBoards == 2

\* Boards of stage 7 that recorded games reach.
StageBoards == <<board_after(2, 7), board_after(8, 7), board_after(3, 7)>>

\* shard_idx with the NoHash hasher: the low SHARD_SIZE = 20 bits of the board
shard_idx(key) == key \cap (0..19)

\* A guard that lives on to the end of the closure.
keep_guard(guards, w, shard) == guards

\* The guard of a shard goes out of scope at the end of the loop body.
drop_guard(guards, w, shard) == guards \ {<<w, shard>>}

InitStage ==
    /\ PlacementsOff
    /\ BrokenOff
    /\ SolverOff
    /\ call = "off"
    /\ input = <<>>
    /\ output = <<>>
    /\ MachineOff
    /\ \E n \in 0..Min(MaxStageBoards, Len(StageBoards)) :
          /\ stages = <<[b \in {StageBoards[k] : k \in 1..n} |-> <<>>], NoEntries>>
          /\ total = n
    /\ iter = 1
    /\ unvisited = DOMAIN stages[1]
    /\ searched = <<to_visit(DOMAIN stages[1])>>
    /\ job = [w \in Workers |-> Idle]
    /\ work = {}
    /\ sweep = 0
    /\ all_boards = <<>>
    /\ gpc = "scope"
    /\ cells = [w \in Workers |-> 0]
    /\ visible = [w \in Workers |-> 0]
    /\ load_idx = 0
    /\ sum = 0
    /\ counted = 0
    /\ mpc = "get"
    /\ held = {}
    /\ wpc = [w \in Workers |-> "idle"]
    /\ ticks = [b \in DOMAIN stages[1] |-> 0]

StageFrame == UNCHANGED <<placementVars, brokenVars, solverVars, call, input, output, machineVars>>

\* Worker w takes an entry of prev_stage; the placement searches of the
\* closure read the board only.
STake(w, b) ==
    /\ gpc = "scope"
    /\ wpc[w] = "idle"
    /\ b \in unvisited
    /\ unvisited' = unvisited \ {b}
    /\ job' = [job EXCEPT ![w] = [busy |-> TRUE, board |-> b, items |-> searched[1][b]]]
    /\ wpc' = [wpc EXCEPT ![w] = IF searched[1][b] = <<>> THEN "increment" ELSE "lock"]
    /\ UNCHANGED <<stages, iter, searched, work, sweep, all_boards, gpc, held, ticks>>
    /\ UNCHANGED counterVars
    /\ StageFrame

\* let mut guard = this_stage.get_shard_guard(&new_board): lock() returns
\* once no thread holds the mutex of the shard.
SLock(w) ==
    /\ wpc[w] = "lock"
    /\ \A pair \in held : pair[2] /= shard_idx(Head(job[w].items))
    /\ held' = held \cup {<<w, shard_idx(Head(job[w].items))>>}
    /\ wpc' = [wpc EXCEPT ![w] = "guarded"]
    /\ UNCHANGED <<graphVars, counterVars, ticks>>
    /\ StageFrame

\* The entry and the push under the guard, and the end of the loop body.
SPush(w) ==
    /\ wpc[w] = "guarded"
    /\ stages' = [stages EXCEPT ![2] = guard_push(@, Head(job[w].items), job[w].board)]
    /\ held' = drop_guard(held, w, shard_idx(Head(job[w].items)))
    /\ job' = [job EXCEPT ![w].items = Tail(@)]
    /\ wpc' = [wpc EXCEPT ![w] = IF Tail(job[w].items) = <<>> THEN "increment" ELSE "lock"]
    /\ UNCHANGED <<iter, unvisited, searched, work, sweep, all_boards, gpc, ticks>>
    /\ UNCHANGED counterVars
    /\ StageFrame

\* counter.increment() and the end of the closure, where every guard that
\* is left is dropped.
SIncrement(w) ==
    /\ wpc[w] = "increment"
    /\ cells' = [cells EXCEPT ![w] = @ + 1]
    /\ ticks' = [ticks EXCEPT ![job[w].board] = @ + 1]
    /\ held' = {pair \in held : pair[1] /= w}
    /\ job' = [job EXCEPT ![w] = Idle]
    /\ wpc' = [wpc EXCEPT ![w] = "idle"]
    /\ UNCHANGED <<stages, iter, unvisited, searched, work, sweep, all_boards, gpc>>
    /\ UNCHANGED <<visible, total, load_idx, sum, counted, mpc>>
    /\ StageFrame

\* crossbeam::scope returns: for_each is through and the reporter returned.
SJoin ==
    /\ gpc = "scope"
    /\ unvisited = {}
    /\ \A w \in Workers : wpc[w] = "idle"
    /\ mpc = "returned"
    /\ gpc' = "joined"
    /\ UNCHANGED <<stages, iter, unvisited, searched, job, work, sweep, all_boards>>
    /\ UNCHANGED <<counterVars, stageVars>>
    /\ StageFrame

WorkerStep(w) ==
    \/ \E b \in unvisited : STake(w, b)
    \/ SLock(w)
    \/ SPush(w)
    \/ SIncrement(w)

NextStage ==
    \/ \E w \in Workers : WorkerStep(w)
    \/ \E c \in Workers, v \in 1..(MaxIncrements + 1) : CPropagate(c, v)
    \/ CLoad
    \/ CGet
    \/ CCheck
    \/ CSleep
    \/ SJoin

SpecStage == InitStage /\ [][NextStage]_vars

\* Every thread that can take a step takes one in finite time, the sleep of
\* the reporter ends, and a value stored to a cell becomes visible to the
\* reporter in finite time.
SpecStageLive ==
    /\ SpecStage
    /\ \A w \in Workers : WF_vars(WorkerStep(w))
    /\ WF_vars(CLoad \/ CGet \/ CCheck \/ CSleep)
    /\ \A c \in Workers : WF_vars(\E v \in 1..(MaxIncrements + 1) : CPropagate(c, v))
    /\ WF_vars(SJoin)

\* C30: the pass ends, the scope joined; no worker holds two shard mutexes
\* and no mutex has two holders; when the pass has ended every board of
\* prev_stage has incremented the counter once and the reporter has read
\* counted = total.
C30_StageFinishes ==
    /\ <>(gpc = "joined")
    /\ [](\A p, q \in held : (p[1] = q[1] \/ p[2] = q[2]) => p = q)
    /\ [](gpc = "joined" =>
            /\ \A b \in DOMAIN ticks : ticks[b] = 1
            /\ sum_from(cells, 0) = total
            /\ counted = total
            /\ held = {})

\* A pass over two boards has ended whose new boards lie in more than one
\* shard.
C30_Witness ==
    /\ gpc = "joined"
    /\ total = 2
    /\ counted = 2
    /\ Cardinality({shard_idx(b) : b \in DOMAIN stages[2]}) > 1

\* A worker waits for the mutex of a shard that the other worker holds.
C30_WitnessWaiting ==
    \E w \in Workers :
        /\ wpc[w] = "lock"
        /\ \E pair \in held : pair[1] /= w /\ pair[2] = shard_idx(Head(job[w].items))

\* The pass over an empty prev_stage has ended.
C30_WitnessEmpty ==
    /\ gpc = "joined"
    /\ total = 0

=============================================================================
